---- MODULE Spec2Model ----
(***************************************************************************)
(* Expando engine of NeoMutt: the compiled-Expando facade (expando_new,    *)
(* expando_free, expando_parse, expando_render, expando_equal) and the     *)
(* recursive-descent parser (skip_until_if_true_end,                       *)
(* skip_until_if_false_end, node_parse, node_tree_parse).                  *)
(*                                                                         *)
(* A C string is a sequence of one-character strings.  A pointer into the  *)
(* string is a 1-based index p: *p is s[p] for p <= Len(s) and the NUL     *)
(* terminator for p = Len(s) + 1; the NULL pointer is 0.                   *)
(***************************************************************************)
EXTENDS Integers, Sequences, FiniteSets, TLC

VARIABLES
  fmt,    \* the format string the callers compile
  exps,   \* the callers' Expando pointers, one per slot
  calls,  \* per slot: what the last expando_parse call into it did
  eq,     \* the last expando_equal call and its result
  out,    \* the last expando_render call and its result
  pf,     \* a maildir_parse_flags call: its arguments and the Email after it
  mb      \* a Maildir mailbox: its directories, its Emails, the last calls

vars == <<fmt, exps, calls, eq, out, pf, mb>>

(***************************************************************************)
(* Bounds of the model.                                                    *)
(***************************************************************************)
\* longest enumerated tail of a format string that is rendered
MaxRenderLen == 2
\* longest enumerated tail of a format string
MaxLen == 3
\* largest column budget handed to expando_render (besides -1 and 8192)
MaxCols == 5
\* most flag letters after "2," in the file name handed to maildir_parse_flags
MaxFlagLen == 3
\* most events from outside: changes other programs make to the files of the
\* Maildir, and signals between two calls
MaxChanges == 2

\* `max_cols = 8192;` the budget that stands for "unlimited"
Unlimited == 8192

(***************************************************************************)
(* Characters, strings and pointers.                                       *)
(***************************************************************************)
NUL == "NUL"

NULL == 0

At(s, p) == IF p >= 1 /\ p <= Len(s) THEN s[p] ELSE NUL

\* the bytes [from, to) of s: the string of a node created with (start, end)
Bytes(s, from, to) == IF to > from THEN SubSeq(s, from, to - 1) ELSE <<>>

(***************************************************************************)
(* Node types and the slots of a Condition node.                           *)
(***************************************************************************)
ENT_EMPTY == "ENT_EMPTY"
ENT_TEXT == "ENT_TEXT"
ENT_EXPANDO == "ENT_EXPANDO"
ENT_PADDING == "ENT_PADDING"
ENT_CONDITION == "ENT_CONDITION"
ENT_CONDBOOL == "ENT_CONDBOOL"
ENT_CONDDATE == "ENT_CONDDATE"

ENC_CONDITION == 1
ENC_TRUE == 2
ENC_FALSE == 3

CON_NO_CONDITION == "CON_NO_CONDITION"
CON_START == "CON_START"

\* the children of a Padding node after the re-pad pass
ENP_LEFT == 1
ENP_RIGHT == 2

\* the justification of a format spec
JUSTIFY_LEFT == "JUSTIFY_LEFT"
JUSTIFY_CENTER == "JUSTIFY_CENTER"
JUSTIFY_RIGHT == "JUSTIFY_RIGHT"

\* the variants of a Padding node: "%>X", "%|X" and "%*X"
PAD_NONE == "PAD_NONE"
PAD_SOFT == "PAD_SOFT"
PAD_HARD == "PAD_HARD"
PAD_EOL == "PAD_EOL"

\* a format spec: min-width, max-width (-1: unbounded), justification and
\* leader glyph
Format(min_cols, max_cols, justification, leader) ==
  [min_cols |-> min_cols, max_cols |-> max_cols, justification |-> justification,
   leader |-> leader]

\* the format spec of "%c": no width, no precision, a space as leader
NoFormat == Format(0, -1, JUSTIFY_RIGHT, " ")

(***************************************************************************)
(* A node pointer is a sequence of nodes: <<>> is NULL, <<n1, ..., nk>> is *)
(* the node n1 with its next-siblings n2..nk.                              *)
(***************************************************************************)
Node(type, start, end, text, children) ==
  [type |-> type, start |-> start, end |-> end, text |-> text, children |-> children,
   format |-> NoFormat, pad_type |-> PAD_NONE]

\* node_new(): an Empty node
node_new == Node(ENT_EMPTY, NULL, NULL, <<>>, <<>>)

\* node_text_new(start, end): a Text node for the bytes [start, end)
node_text_new(s, start, end) == Node(ENT_TEXT, start, end, Bytes(s, start, end), <<>>)

\* node_expando_new(start, end, format, ...): an Expando node for the code
\* [start, end) with the format spec format
node_expando_new(s, start, end, format) ==
  [Node(ENT_EXPANDO, start, end, Bytes(s, start, end), <<>>) EXCEPT !.format = format]

\* a Padding node of the variant pad_type with the fill glyph
node_padding_new(pad_type, glyph) ==
  [Node(ENT_PADDING, NULL, NULL, <<glyph>>, <<>>) EXCEPT !.pad_type = pad_type]

\* node_condbool_new(start, end, ...): a CondBool node for the code [start, end)
node_condbool_new(s, start, end) == Node(ENT_CONDBOOL, start, end, Bytes(s, start, end), <<>>)

\* node_conddate_new(count, period, ...): a CondDate node for the argument
\* [start, end) of the date code; text is <<count, period>>
node_conddate_new(s, start, end, count, period) ==
  Node(ENT_CONDDATE, start, end, <<count, period>>, <<>>)

\* node_condition_new(condition, if_true, if_false): the three fixed slots
node_condition_new(condition, if_true, if_false) ==
  Node(ENT_CONDITION, NULL, NULL, <<>>, <<condition, if_true, if_false>>)

\* node_append(&root, node): append at the tail of the sibling list
node_append(root, node) == root \o node

\* node_get_child(node, index)
node_get_child(node, index) ==
  IF index <= Len(node.children) THEN node.children[index] ELSE <<>>

RECURSIVE NodeCount(_)
\* number of nodes reachable from a node pointer (siblings and children)
NodeCount(list) ==
  IF list = <<>> THEN 0
  ELSE 1 + NodeCount(Tail(list))
         + (IF Head(list).type = ENT_CONDITION
              THEN NodeCount(Head(list).children[ENC_CONDITION])
                   + NodeCount(Head(list).children[ENC_TRUE])
                   + NodeCount(Head(list).children[ENC_FALSE])
            ELSE IF Head(list).type = ENT_PADDING
              THEN NodeCount(node_get_child(Head(list), ENP_LEFT))
                   + NodeCount(node_get_child(Head(list), ENP_RIGHT))
              ELSE 0)

\* node_free(&ptr) / node_tree_free(&ptr): the number of nodes released
node_free(list) == NodeCount(list)

(***************************************************************************)
(* The parse error record.                                                 *)
(***************************************************************************)
NoMessage == ""
MsgMissingQuestion == "Conditional expando is missing '?'"
MsgMissingAmpOrGreater == "Conditional expando is missing '&' or '>'"
MsgMissingAmpOrQuestion == "Conditional expando is missing '&' or '?'"
MsgMissingGreater == "Conditional expando is missing '>'"
MsgUnknownExpando == "Unknown expando"
MsgInvalidPeriod == "Invalid time period"
MsgMalformedSpec == "Malformed width or precision"

ParseError(position, message) == [position |-> position, message |-> message]

NoError == ParseError(NULL, NoMessage)

\* snprintf(..., "Conditional expando is missing '&' or '%c'", end_terminator)
MsgMissingAmpOr(end_terminator) ==
  IF end_terminator = ">" THEN MsgMissingAmpOrGreater ELSE MsgMissingAmpOrQuestion

\* snprintf(..., "Conditional expando is missing '%c'", end_terminator)
MsgMissing(end_terminator) ==
  IF end_terminator = ">" THEN MsgMissingGreater ELSE MsgMissingQuestion

(***************************************************************************)
(* The definition table: the short names of the known expandos.            *)
(***************************************************************************)
\* the table of test_expando_empty_if_else: "c" cherry, "f" fig, "t" tangerine
TestFormatDef == {"c", "f", "t"}

\* the table the callers hand to expando_parse: TestFormatDef, the date code
\* and the codes "a" and "b" of the conditionals "%<a?...>" and "%<b?...>"
\* the table of test_expando_conditional_date_render: "[" with the custom
\* parser parse_date
DateDef == {"["}

FormatDef == TestFormatDef \cup DateDef \cup {"a", "b"}

\* the padding codes: soft fill "%>X", hard fill "%|X" and fill to the end of
\* the row "%*X"; a table has them as definitions with a parser of their own
PaddingDef == {">", "|", "*"}

\* a table with the padding codes
PaddedDef == FormatDef \cup PaddingDef

(***************************************************************************)
(* Forward scans.                                                          *)
(***************************************************************************)
RECURSIVE skip_until_ch(_, _, _)
\* skip_until_ch(start, terminator): the terminator, or the end of the string
skip_until_ch(s, start, terminator) ==
  IF At(s, start) = NUL \/ At(s, start) = terminator THEN start
  ELSE skip_until_ch(s, start + 1, terminator)

RECURSIVE skip_until_ch_or_end(_, _, _, _)
\* as skip_until_ch, but never beyond end when end is given
skip_until_ch_or_end(s, start, terminator, end) ==
  IF At(s, start) = NUL THEN start
  ELSE IF At(s, start) = terminator THEN start
  ELSE IF end # NULL /\ start > end - 1 THEN start
  ELSE skip_until_ch_or_end(s, start + 1, terminator, end)

\* ScanCtr without the count of nested '%<'
ScanCtr_NoNesting(ctr, prev, ch) ==
  IF ch = ">" /\ prev # "%" THEN ctr - 1 ELSE ctr

\* one step of the nesting counter, shared by both scans
ScanCtr(ctr, prev, ch) ==
  LET c1 == IF prev = "%" /\ ch = "<" THEN ctr + 1 ELSE ctr
  IN  IF ch = ">" /\ prev # "%" THEN c1 - 1 ELSE c1

RECURSIVE ScanTrue(_, _, _, _, _, _)
\* the loop of skip_until_if_true_end; low is the least value ctr has had
ScanTrue(s, start, end_terminator, ctr, prev, low) ==
  LET ch == At(s, start) IN
  IF ch = NUL THEN [pos |-> start, low |-> low]
  ELSE IF ctr = 0 /\ ((ch = end_terminator /\ prev # "%") \/ ch = "&")
    THEN [pos |-> start, low |-> low]
  ELSE LET c == ScanCtr(ctr, prev, ch)
       IN  ScanTrue(s, start + 1, end_terminator, c, ch, IF c < low THEN c ELSE low)

skip_until_if_true_end(s, start, end_terminator) ==
  ScanTrue(s, start, end_terminator, 0, NUL, 0).pos

RECURSIVE ScanFalse(_, _, _, _, _, _)
\* the loop of skip_until_if_false_end; low is the least value ctr has had
ScanFalse(s, start, end_terminator, ctr, prev, low) ==
  LET ch == At(s, start) IN
  IF ch = NUL THEN [pos |-> start, low |-> low]
  ELSE IF ctr = 0 /\ ch = end_terminator /\ prev # "%"
    THEN [pos |-> start, low |-> low]
  ELSE LET c == ScanCtr(ctr, prev, ch)
       IN  ScanFalse(s, start + 1, end_terminator, c, ch, IF c < low THEN c ELSE low)

skip_until_if_false_end(s, start, end_terminator) ==
  ScanFalse(s, start, end_terminator, 0, NUL, 0).pos

(***************************************************************************)
(* Element parsers.  A parse result is                                     *)
(*   node   the node returned (<<>> for NULL)                              *)
(*   until  *parsed_until (NULL when the call did not write it)            *)
(*   err    the error record after the call                                *)
(*   lost   nodes the call allocated and left neither returned nor freed   *)
(*   abort  the call ran into ASSERT(false)                                *)
(*   trace  the node_parse calls made, in the order they were entered      *)
(***************************************************************************)
\* Parsed leaving *parsed_until as the caller initialised it
Parsed_UntilUnset(node, until, e, lost) ==
  [node |-> <<node>>, until |-> NULL, err |-> e, lost |-> lost, abort |-> FALSE,
   trace |-> <<>>]

Parsed(node, until, e, lost) ==
  [node |-> <<node>>, until |-> until, err |-> e, lost |-> lost, abort |-> FALSE,
   trace |-> <<>>]

Failed(e, lost) ==
  [node |-> <<>>, until |-> NULL, err |-> e, lost |-> lost, abort |-> FALSE,
   trace |-> <<>>]

\* one node_parse call: its arguments, how deep in the recursion it was made
\* (0: by node_tree_parse), what it returned, and *parsed_until and
\* err->position when it returned
Call(str, end, condition_start, r) ==
  [str |-> str, end |-> end, condition_start |-> condition_start, depth |-> 0,
   node |-> r.node, until |-> r.until, position |-> r.err.position]

\* the calls of a trace, seen from the caller of the call that made them
Deeper(trace) == [i \in 1..Len(trace) |-> [trace[i] EXCEPT !.depth = @ + 1]]

\* r is what a node_parse call returns: the call goes in front of the calls it made
Traced(str, end, condition_start, r) ==
  [r EXCEPT !.trace = <<Call(str, end, condition_start, r)>> \o Deeper(@)]

\* the calls made before those of r, by the same caller
After(trace, r) == [r EXCEPT !.trace = trace \o @]

\* node_text_parse(str, end, parsed_until): text up to the next '%' or to end
node_text_parse(s, str, end, e) ==
  LET text_end == skip_until_ch_or_end(s, str, "%", end)
  IN  Parsed(node_text_new(s, str, text_end), text_end, e, 0)

\* the decimal digits, in order
Decimal == <<"0", "1", "2", "3", "4", "5", "6", "7", "8", "9">>

IsDigit(ch) == \E d \in 1..Len(Decimal) : Decimal[d] = ch

\* the value of a decimal digit
DigitOf(ch) == (CHOOSE d \in 1..Len(Decimal) : Decimal[d] = ch) - 1

RECURSIVE Number(_, _, _)
\* the decimal number at p, after the digits that gave value: its value and
\* the first byte after it
Number(s, p, value) ==
  IF IsDigit(At(s, p)) THEN Number(s, p + 1, value * 10 + DigitOf(At(s, p)))
  ELSE [value |-> value, end |-> p]

\* the precision of a format spec: "." digits, and a '.' without digits is
\* ill-formed.  A parsed spec is [ok, format, end]: end is the first byte after
\* the spec, or the offending byte
FormatPrecision(s, p, format) ==
  IF At(s, p) # "." THEN [ok |-> TRUE, fmt |-> format, end |-> p]
  ELSE IF ~IsDigit(At(s, p + 1)) THEN [ok |-> FALSE, fmt |-> format, end |-> p + 1]
  ELSE [ok |-> TRUE, fmt |-> [format EXCEPT !.max_cols = Number(s, p + 1, 0).value],
        end |-> Number(s, p + 1, 0).end]

\* the width of a format spec: digits, 0 when there are none
FormatWidth(s, p, format) ==
  FormatPrecision(s, Number(s, p, 0).end,
                  [format EXCEPT !.min_cols = Number(s, p, 0).value])

\* a leading '0' of the width makes the leader glyph '0'
FormatLeader(s, p, format) ==
  IF At(s, p) = "0" THEN FormatWidth(s, p + 1, [format EXCEPT !.leader = "0"])
  ELSE FormatWidth(s, p, format)

\* spec ::= ("-"|"=")? ("0")? digits? ("." digits)?  with '-' for left and '='
\* for centre; a field is right-justified otherwise
parse_format(s, str) ==
  IF At(s, str) = "-"
    THEN FormatLeader(s, str + 1, [NoFormat EXCEPT !.justification = JUSTIFY_LEFT])
  ELSE IF At(s, str) = "="
    THEN FormatLeader(s, str + 1, [NoFormat EXCEPT !.justification = JUSTIFY_CENTER])
  ELSE FormatLeader(s, str, NoFormat)

\* the variant of a padding code
PadType(code) ==
  IF code = ">" THEN PAD_SOFT ELSE IF code = "|" THEN PAD_HARD ELSE PAD_EOL

\* the parser of the padding codes: str is at the code, the glyph is the byte
\* after it, a space when the string ends there
node_padding_parse(s, str, e) ==
  IF At(s, str + 1) = NUL
    THEN Parsed(node_padding_new(PadType(At(s, str)), " "), str + 1, e, 0)
    ELSE Parsed(node_padding_new(PadType(At(s, str)), At(s, str + 1)), str + 2, e, 0)

\* node_expando_parse after the format spec: f is the parsed spec; a one-byte
\* code follows, which is handed to the parser of its definition when it is a
\* padding code
ExpandoAfterFormat(s, f, defs, e) ==
  IF ~f.ok THEN Failed(ParseError(f.end, MsgMalformedSpec), 0)
  ELSE IF At(s, f.end) \in defs \cap PaddingDef THEN node_padding_parse(s, f.end, e)
  ELSE IF At(s, f.end) \in defs
    THEN Parsed(node_expando_new(s, f.end, f.end + 1, f.fmt), f.end + 1, e, 0)
  ELSE Failed(ParseError(f.end, MsgUnknownExpando), 0)

\* node_expando_parse(str, parsed_until, defs, flags, err): "%" spec code
node_expando_parse(s, str, defs, e) ==
  ExpandoAfterFormat(s, parse_format(s, str), defs, e)

\* the periods of a conditional date and the digits of its count
Periods == {"y", "m", "w", "d"}

Digits == {"1", "2"}

\* parse_date(str, parsed_until, ..., flags, err) in a test: str is at the '[';
\* an optional count (1 when absent) and a period
parse_date(s, str, e) ==
  IF At(s, str + 1) \in Digits /\ At(s, str + 2) \in Periods
    THEN Parsed(node_conddate_new(s, str, str + 3, At(s, str + 1), At(s, str + 2)),
                str + 3, e, 0)
  ELSE IF At(s, str + 1) \in Periods
    THEN Parsed(node_conddate_new(s, str, str + 2, "1", At(s, str + 1)),
                str + 2, e, 0)
  ELSE Failed(ParseError(str + 1, MsgInvalidPeriod), 0)

\* node_condbool_parse(str, parsed_until, defs, flags, err): a one-byte code,
\* handed to the custom parser of its definition when it has one
node_condbool_parse(s, str, defs, e) ==
  IF At(s, str) \in defs \cap DateDef
    THEN parse_date(s, str, e)
  ELSE IF At(s, str) \in defs
    THEN Parsed(node_condbool_new(s, str, str + 1), str + 1, e, 0)
    ELSE Failed(ParseError(str, MsgUnknownExpando), 0)

RECURSIVE node_parse(_, _, _, _, _, _)
RECURSIVE BranchLoop(_, _, _, _, _, _, _)

\* `if (!node) { ...; return NULL; }  node_append(&list, node); start = parsed;`
\* r is the result of the node_parse call of this iteration
BranchStep(s, start, end, defs, list, lost, r) ==
  IF r.node = <<>>
    THEN [ok |-> FALSE, list |-> list, start |-> start, err |-> r.err,
          lost |-> lost + r.lost, trace |-> r.trace]
    ELSE After(r.trace,
               BranchLoop(s, r.until, end, defs, r.err, node_append(list, r.node),
                          lost + r.lost))

\* the loops `while (start_true < end_true)` and `while (start_false < end_false)`
\* of node_parse: ok is FALSE when an element failed to parse
BranchLoop(s, start, end, defs, e, list, lost) ==
  IF ~(start < end)
    THEN [ok |-> TRUE, list |-> list, start |-> start, err |-> e, lost |-> lost,
          trace |-> <<>>]
    ELSE BranchStep(s, start, end, defs, list, lost,
                    node_parse(s, start, end, CON_NO_CONDITION, defs, e))

\* EmptyBranch without the Empty node for an empty branch
EmptyBranch_Never(start, end, list) == list

\* `if ((start == end) && !node) node = node_new();` after a branch loop
EmptyBranch(start, end, list) ==
  IF start = end /\ list = <<>> THEN <<node_new>> ELSE list

\* TrueBranchError reporting the start of the branch instead of the end of the scan
TrueBranchError_AtStart(start_true, end_true, end_terminator) ==
  ParseError(start_true, MsgMissingAmpOr(end_terminator))

\* TrueBranchError that leaves err->position unset
TrueBranchError_Unset(start_true, end_true, end_terminator) ==
  NoError

\* the error of a true branch that runs into the end of the string
TrueBranchError(start_true, end_true, end_terminator) ==
  ParseError(end_true, MsgMissingAmpOr(end_terminator))

\* FalseBranchError reporting the byte where the scan stopped
FalseBranchError_AtEnd(start_false, end_false, end_terminator) ==
  ParseError(end_false, MsgMissing(end_terminator))

\* the error of a false branch that runs into the end of the string
FalseBranchError(start_false, end_false, end_terminator) ==
  ParseError(start_false, MsgMissing(end_terminator))

\* OnlyTrueCondition with an Empty node in the FALSE slot
OnlyTrueCondition_EmptyFalse(node_cond, node_true) ==
  node_condition_new(node_cond, node_true, <<node_new>>)

\* `return node_condition_new(node_cond, node_true, NULL);` when only_true
OnlyTrueCondition(node_cond, node_true) ==
  node_condition_new(node_cond, node_true, <<>>)

\* after the false-branch loop; pf is the result of the loop
CondAfterFalse(end_false, node_cond, node_true, lost, fl) ==
  After(fl.trace,
    IF ~fl.ok
      THEN \* node_free(&node_true); node_free(&node_cond);
           \* the nodes already appended to node_false stay allocated
           Failed(fl.err, lost + fl.lost + NodeCount(fl.list))
      ELSE Parsed(node_condition_new(node_cond, node_true,
                                     EmptyBranch(fl.start, end_false, fl.list)),
                  end_false + 1, fl.err, lost + fl.lost))

\* the check of end_false and the false-branch loop
CondFalse(s, start_false, end_false, end_terminator, defs, e, node_cond, node_true, lost) ==
  IF At(s, end_false) # end_terminator
    THEN \* node_free(&node_true); node_free(&node_cond);
         Failed(FalseBranchError(start_false, end_false, end_terminator), lost)
    ELSE CondAfterFalse(end_false, node_cond, node_true, lost,
                        BranchLoop(s, start_false, end_false, defs, e, <<>>, 0))

\* the false half of a conditional: `const char *start_false = end_true + 1;`
ParseFalse(s, end_true, end_terminator, defs, e, node_cond, node_true, lost) ==
  CondFalse(s, end_true + 1,
            skip_until_if_false_end(s, end_true + 1, end_terminator),
            end_terminator, defs, e, node_cond, node_true, lost)

\* after the true-branch loop; rc is the parsed test, tl the result of the loop
CondAfterTrue(s, end_true, end_terminator, defs, rc, tl) ==
  After(tl.trace,
    IF ~tl.ok
      THEN \* node_free(&node_cond);
           \* the nodes already appended to node_true stay allocated
           Failed(tl.err, rc.lost + tl.lost + NodeCount(tl.list))
    ELSE IF At(s, end_true) = end_terminator
      THEN \* only_true
           Parsed(OnlyTrueCondition(rc.node, EmptyBranch(tl.start, end_true, tl.list)),
                  end_true + 1, tl.err, rc.lost + tl.lost)
    ELSE ParseFalse(s, end_true, end_terminator, defs, tl.err, rc.node,
                    EmptyBranch(tl.start, end_true, tl.list), rc.lost + tl.lost))

\* the check of end_true (only_true, invalid) and the true-branch loop
CondTrue(s, start_true, end_true, end_terminator, defs, rc) ==
  IF (At(s, end_true) # "&") /\ ~(At(s, end_true) = end_terminator)
    THEN \* invalid: node_free(&node_cond);
         Failed(TrueBranchError(start_true, end_true, end_terminator), rc.lost)
    ELSE CondAfterTrue(s, end_true, end_terminator, defs, rc,
                       BranchLoop(s, start_true, end_true, defs, rc.err, <<>>, 0))

\* after the test was parsed; rc is the result of that node_parse call
CondAfterTest(s, end_terminator, defs, rc) ==
  After(rc.trace,
    IF rc.node = <<>> THEN Failed(rc.err, rc.lost)
    ELSE IF At(s, rc.until) # "?"
      THEN \* node_free(&node_cond);
           Failed(ParseError(rc.until, MsgMissingQuestion), rc.lost)
    ELSE CondTrue(s, rc.until + 1,
                  skip_until_if_true_end(s, rc.until + 1, end_terminator),
                  end_terminator, defs, rc))

\* `char end_terminator = old_style ? '?' : '>';` for the opening character
EndTerminator(open) == IF open = "?" THEN "?" ELSE ">"

\* the conditional of node_parse: str is at the '?' or '<' that opens it
ParseConditional(s, str, defs, e) ==
  CondAfterTest(s, EndTerminator(At(s, str)), defs,
                node_parse(s, str, skip_until_ch(s, str, "?"), CON_START, defs, e))

\* `if (!node || err->position) { node_free(&node); return NULL; } return node;`
\* *parsed_until stays as the element parser left it
CheckExpando(r) ==
  IF r.node = <<>> \/ r.err.position # NULL
    THEN [Failed(r.err, r.lost) EXCEPT !.until = r.until]
    ELSE r

\* ParseExpando without the conditional flag: node_expando_parse everywhere
ParseExpando_NoFlag(s, str, condition_start, defs, e) ==
  CheckExpando(node_expando_parse(s, str, defs, e))

\* the expando of node_parse: a CondBool in the test slot, an Expando elsewhere
ParseExpando(s, str, condition_start, defs, e) ==
  CheckExpando(IF condition_start = CON_START
                 THEN node_condbool_parse(s, str, defs, e)
                 ELSE node_expando_parse(s, str, defs, e))

\* ParsePercent with a Text node that holds both bytes of "%%"
ParsePercent_BothBytes(s, str, condition_start, defs, e) ==
  IF At(s, str) = "%"
    THEN Parsed(node_text_new(s, str - 1, str + 1), str + 1, e, 0)
  ELSE IF At(s, str) \in {"?", "<"}
    THEN ParseConditional(s, str, defs, e)
  ELSE ParseExpando(s, str, condition_start, defs, e)

\* node_parse after `str++`: str is at the byte after the '%' (or the implicit one)
ParsePercent(s, str, condition_start, defs, e) ==
  IF At(s, str) = "%"
    THEN Parsed(node_text_new(s, str, str + 1), str + 1, e, 0)
  ELSE IF At(s, str) \in {"?", "<"}
    THEN ParseConditional(s, str, defs, e)
  ELSE ParseExpando(s, str, condition_start, defs, e)

\* node_parse with the '%' implicit everywhere, not only in a test
node_parse_AlwaysImplicit(s, str, end, condition_start, defs, e) ==
  Traced(str, end, condition_start,
    IF ~(At(s, str) # NUL /\ (IF end # NULL THEN str <= end ELSE TRUE))
      THEN [node |-> <<>>, until |-> NULL, err |-> e, lost |-> 0, abort |-> TRUE,
            trace |-> <<>>]
    ELSE IF At(s, str) = "%" \/ At(s, str) \in {"?", "<"}
      THEN ParsePercent(s, str + 1, condition_start, defs, e)
    ELSE node_text_parse(s, str, end, e))

\* node_parse(str, end, condition_start, parsed_until, defs, err)
node_parse(s, str, end, condition_start, defs, e) ==
  Traced(str, end, condition_start,
    IF ~(At(s, str) # NUL /\ (IF end # NULL THEN str <= end ELSE TRUE))
      THEN \* ASSERT(false && "Internal parsing error")
           [node |-> <<>>, until |-> NULL, err |-> e, lost |-> 0, abort |-> TRUE,
            trace |-> <<>>]
    ELSE IF At(s, str) = "%"
            \/ (condition_start = CON_START /\ At(s, str) \in {"?", "<"})
      THEN ParsePercent(s, str + 1, condition_start, defs, e)
    ELSE node_text_parse(s, str, end, e))

RECURSIVE PaddingIndex(_, _)
\* the index of the first Padding node at or after i in a sibling list, or 0
PaddingIndex(list, i) ==
  IF i > Len(list) THEN 0
  ELSE IF list[i].type = ENT_PADDING THEN i
  ELSE PaddingIndex(list, i + 1)

\* the re-pad of a list whose first Padding node is at index i (0: none)
RepadAt(root, i) ==
  IF i = 0 THEN root
  ELSE <<[root[i] EXCEPT !.children =
            <<SubSeq(root, 1, i - 1), SubSeq(root, i + 1, Len(root))>>]>>

\* node_padding_repad(&root): the siblings before the first Padding node become
\* its left child and those after it its right child; a list without Padding
\* nodes is left as it is
node_padding_repad(root) == RepadAt(root, PaddingIndex(root, 1))

RECURSIVE TreeLoop(_, _, _, _, _, _, _, _)

\* TreeStep with the new node put in front of the list
TreeStep_Prepend(s, defs, root, lost, calls_, repads, r) ==
  IF r.node = <<>>
    THEN [root |-> root, err |-> r.err, lost |-> lost + r.lost, calls |-> calls_ + 1,
          repads |-> repads, trace |-> r.trace]
    ELSE After(r.trace,
               TreeLoop(s, r.until, defs, r.err, node_append(r.node, root),
                        lost + r.lost, calls_ + 1, repads))

\* TreeStep with a re-pad pass after every node it appends
TreeStep_RepadEach(s, defs, root, lost, calls_, repads, r) ==
  IF r.node = <<>>
    THEN [root |-> root, err |-> r.err, lost |-> lost + r.lost, calls |-> calls_ + 1,
          repads |-> repads, trace |-> r.trace]
    ELSE After(r.trace,
               TreeLoop(s, r.until, defs, r.err,
                        node_padding_repad(node_append(root, r.node)),
                        lost + r.lost, calls_ + 1, repads + 1))

\* `if (!node) break;  node_append(root, node);  start = end;`
TreeStep(s, defs, root, lost, calls_, repads, r) ==
  IF r.node = <<>>
    THEN [root |-> root, err |-> r.err, lost |-> lost + r.lost, calls |-> calls_ + 1,
          repads |-> repads, trace |-> r.trace]
    ELSE After(r.trace,
               TreeLoop(s, r.until, defs, r.err, node_append(root, r.node),
                        lost + r.lost, calls_ + 1, repads))

\* the loop `while (*start)` of node_tree_parse; calls_ counts the node_parse
\* calls and repads the runs of the re-pad pass so far
TreeLoop(s, start, defs, e, root, lost, calls_, repads) ==
  IF At(s, start) = NUL
    THEN [root |-> root, err |-> e, lost |-> lost, calls |-> calls_,
          repads |-> repads, trace |-> <<>>]
    ELSE TreeStep(s, defs, root, lost, calls_, repads,
                  node_parse(s, start, NULL, CON_NO_CONDITION, defs, e))

\* `node_padding_repad(root);` after the loop; t is the result of the loop
TreeRepad(t) ==
  [root |-> node_padding_repad(t.root), err |-> t.err, lost |-> t.lost,
   calls |-> t.calls, repads |-> t.repads + 1, trace |-> t.trace, list |-> t.root]

\* node_tree_parse(&root, string, defs, err): root is *root before the call.
\* A string is [null, chars]; repads counts the runs of the re-pad pass.
node_tree_parse(root, string, defs, e) ==
  IF string.null \/ string.chars = <<>>
    THEN [root |-> node_append(root, <<node_new>>), err |-> e, lost |-> 0,
          calls |-> 0, repads |-> 0, trace |-> <<>>,
          list |-> node_append(root, <<node_new>>)]
    ELSE TreeRepad(TreeLoop(string.chars, 1, defs, e, root, 0, 0, 0))

(***************************************************************************)
(* The compiled Expando.                                                   *)
(***************************************************************************)
NullString == [null |-> TRUE, chars |-> <<>>]

Str(chars) == [null |-> FALSE, chars |-> chars]

NullExpando == [null |-> TRUE, string |-> NullString, node |-> <<>>]

\* mutt_str_dup(str): a copy of the string, NULL for NULL and for ""
mutt_str_dup(str) == IF str.null \/ str.chars = <<>> THEN NullString ELSE str

\* the strings a mutt_str_dup call allocates
StrAllocs(copy) == IF copy.null THEN 0 ELSE 1

\* expando_new(format): exp->string = mutt_str_dup(format), exp->node = NULL
expando_new(format) ==
  [null |-> FALSE, string |-> mutt_str_dup(format), node |-> <<>>]

\* mutt_str_equal(a, b): NULL and "" compare equal
mutt_str_equal(a, b) == a.chars = b.chars

\* expando_equal comparing the node trees instead of the strings
expando_equal_ByTree(a, b) ==
  IF a.null /\ b.null THEN TRUE
  ELSE IF a.null # b.null THEN FALSE
  ELSE a.node = b.node

\* expando_equal(a, b)
expando_equal(a, b) ==
  IF a.null /\ b.null THEN TRUE
  ELSE IF a.null # b.null THEN FALSE
  ELSE mutt_str_equal(a.string, b.string)

\* ParseFinish without `node_tree_free(&root);` on the error path
ParseFinish_NoTreeFree(exp, t, buf) ==
  IF t.err.position # NULL
    THEN [ret |-> NullExpando, buf |-> t.err.message, error |-> t.err,
          root |-> t.root,
          live |-> [exps |-> 1 - 1,
                    strs |-> StrAllocs(exp.string) - StrAllocs(exp.string),
                    nodes |-> NodeCount(t.root) + t.lost],
          lost |-> t.lost, calls |-> t.calls, repads |-> t.repads,
          trace |-> t.trace, list |-> t.list]
    ELSE [ret |-> [exp EXCEPT !.node = t.root], buf |-> buf, error |-> t.err,
          root |-> t.root,
          live |-> [exps |-> 1, strs |-> StrAllocs(exp.string),
                    nodes |-> NodeCount(t.root) + t.lost],
          lost |-> t.lost, calls |-> t.calls, repads |-> t.repads,
          trace |-> t.trace, list |-> t.list]

\* expando_parse after node_tree_parse: exp is the new Expando, t the result of
\* node_tree_parse, buf the caller's err buffer
ParseFinish(exp, t, buf) ==
  IF t.err.position # NULL
    THEN \* buf_strcpy(err, error.message); node_tree_free(&root);
         \* expando_free(&exp); return NULL;
         [ret |-> NullExpando, buf |-> t.err.message, error |-> t.err,
          root |-> t.root,
          live |-> [exps |-> 1 - 1,
                    strs |-> StrAllocs(exp.string) - StrAllocs(exp.string),
                    nodes |-> NodeCount(t.root) + t.lost - node_free(t.root)],
          lost |-> t.lost, calls |-> t.calls, repads |-> t.repads,
          trace |-> t.trace, list |-> t.list]
    ELSE \* exp->node = root; return exp;
         [ret |-> [exp EXCEPT !.node = t.root], buf |-> buf, error |-> t.err,
          root |-> t.root,
          live |-> [exps |-> 1, strs |-> StrAllocs(exp.string),
                    nodes |-> NodeCount(t.root) + t.lost],
          lost |-> t.lost, calls |-> t.calls, repads |-> t.repads,
          trace |-> t.trace, list |-> t.list]

\* the stack memory a call's locals are put in: what an earlier call left
\* there of its error and its root
Stack(error, root) == [error |-> error, root |-> root]

\* ParseLocals without the initialisers: the locals hold what the stack held
ParseLocals_Uninitialised(stack) == stack

\* `struct ExpandoParseError error = { 0 }; struct ExpandoNode *root = NULL;`
\* the locals of expando_parse when the parse starts, whatever the stack held
ParseLocals(stack) == Stack(NoError, <<>>)

\* expando_parse(str, defs, err): ret is the Expando returned, buf the caller's
\* err buffer after the call, error the local ExpandoParseError, root the tree
\* node_tree_parse built, live the objects the call allocated and did not free,
\* lost the nodes among them that nothing points to any more, trace the
\* node_parse calls made, list the sibling list before the re-pad pass
expando_parse(str, defs_null, defs, buf, stack) ==
  IF str.null \/ defs_null
    THEN [ret |-> NullExpando, buf |-> buf, error |-> NoError, root |-> <<>>,
          live |-> [exps |-> 0, strs |-> 0, nodes |-> 0], lost |-> 0,
          calls |-> 0, repads |-> 0, trace |-> <<>>, list |-> <<>>]
    ELSE ParseFinish(expando_new(str),
                     node_tree_parse(ParseLocals(stack).root, expando_new(str).string,
                                     defs, ParseLocals(stack).error),
                     buf)

(***************************************************************************)
(* Rendering.  A column is a cell of the terminal: the character "W" is    *)
(* two columns wide, every other character one.  The render data gives,    *)
(* for every code, the string and the number its callbacks produce; the    *)
(* number of the date code is a time in days.  A render result is          *)
(*   buf   the output buffer after the call                                *)
(*   cols  the number of columns added                                     *)
(*   used  the codes whose callbacks were invoked                          *)
(***************************************************************************)
Width(ch) == IF ch = "W" THEN 2 ELSE 1

RECURSIVE Cols(_)
\* the number of columns of a string
Cols(text) == IF text = <<>> THEN 0 ELSE Width(Head(text)) + Cols(Tail(text))

RECURSIVE Fit(_, _)
\* the longest prefix of text that fits into max_cols columns: truncation at
\* a column boundary, never half of a wide character
Fit(text, max_cols) ==
  IF text = <<>> \/ Width(Head(text)) > max_cols THEN <<>>
  ELSE <<Head(text)>> \o Fit(Tail(text), max_cols - Width(Head(text)))

\* a render result: text is appended to the buffer
Rendered(buf, text) == [buf |-> buf \o text, cols |-> Cols(text), used |-> {}]

\* the result r of a render after the callbacks of codes were invoked
Invoked(codes, r) == [r EXCEPT !.used = codes \cup @]

\* mutt_date_now(), in days
DateNow == 400

\* the days of a period of a conditional date
PeriodDays(period) ==
  IF period = "y" THEN 365 ELSE IF period = "m" THEN 30
  ELSE IF period = "w" THEN 7 ELSE 1

DigitValue(digit) == IF digit = "2" THEN 2 ELSE 1

\* the test of a CondDate node: the date the number callback gives is later
\* than now minus count periods
DateWithin(node, t) ==
  t > DateNow - DigitValue(node.text[1]) * PeriodDays(node.text[2])

RECURSIVE node_render(_, _, _, _, _)

\* a test result: its truth and the codes whose callbacks it invoked
Tested(truth, used) == [truth |-> truth, used |-> used]

\* a test that is rendered: r is the result of the render
TestRendered(r) == Tested(r.buf # <<>>, r.used)

\* the test of a Condition: the number callback of a CondBool is non-zero, the
\* date of a CondDate is within its period; any other test is rendered and is
\* true when the string is not empty
TestTrue(test, data) ==
  IF test = <<>> THEN Tested(FALSE, {})
  ELSE IF test[1].type = ENT_CONDBOOL
    THEN Tested(data[test[1].text[1]].num # 0, {test[1].text[1]})
  ELSE IF test[1].type = ENT_CONDDATE
    THEN Tested(DateWithin(test[1], data["["].num), {"["})
  ELSE TestRendered(node_render(test, data, <<>>, Unlimited, 0))

\* SelectedBranch with the branches the other way round
SelectedBranch_Swapped(node, truth) ==
  IF truth THEN node.children[ENC_FALSE] ELSE node.children[ENC_TRUE]

\* the branch a Condition renders: the TRUE slot or the FALSE slot
SelectedBranch(node, truth) ==
  IF truth THEN node.children[ENC_TRUE] ELSE node.children[ENC_FALSE]

\* the render of a Condition: tested is the result of its test
RenderCondition(node, data, buf, max_cols, tested) ==
  Invoked(tested.used,
          node_render(SelectedBranch(node, tested.truth), data, buf, max_cols, 0))

\* n times the glyph, nothing when n is not positive
Fill(glyph, n) == [i \in 1..n |-> glyph]

\* the leader glyphs that fill a field of cols columns to min_cols
Leader(format, cols) == Fill(format.leader, format.min_cols - cols)

\* LEFT pads on the right, RIGHT on the left, CENTRE splits the leader with
\* the odd glyph on the right
Justify(text, format, leader) ==
  IF format.justification = JUSTIFY_LEFT THEN text \o leader
  ELSE IF format.justification = JUSTIFY_RIGHT THEN leader \o text
  ELSE SubSeq(leader, 1, Len(leader) \div 2) \o text
         \o SubSeq(leader, Len(leader) \div 2 + 1, Len(leader))

\* a value cut at the max-width of the format spec, if it has one
Truncated(text, format) == IF format.max_cols >= 0 THEN Fit(text, format.max_cols) ELSE text

\* Padded with the field emitted whole, whatever the budget
Padded_NoBudget(text, format, max_cols) == Justify(text, format, Leader(format, Cols(text)))

\* a truncated value filled to the min-width and justified; what is emitted
\* of the field is what fits into the budget
Padded(text, format, max_cols) ==
  Fit(Justify(text, format, Leader(format, Cols(text))), max_cols)

\* an Expando node: the value of the callback under the format spec
RenderExpando(node, data, buf, max_cols) ==
  Invoked({node.text[1]},
          Rendered(buf, Padded(Truncated(data[node.text[1]].str, node.format),
                               node.format, max_cols)))

\* a render that emitted nothing
EmptyRender == [buf |-> <<>>, cols |-> 0, used |-> {}]

\* the fill of a Padding node: as many glyphs as fit into cols columns
PadFill(node, cols) ==
  Fill(node.text[1], IF cols > 0 THEN cols \div Width(node.text[1]) ELSE 0)

\* the groups l and r of a Padding node with the fill between them
PadJoin(node, buf, max_cols, fill, l, r) ==
  [buf |-> buf \o l.buf \o fill \o r.buf,
   cols |-> l.cols + Cols(fill) + r.cols,
   used |-> l.used \cup r.used]

\* the fill takes the columns the groups l and r left
PadBetween(node, buf, max_cols, l, r) ==
  PadJoin(node, buf, max_cols, PadFill(node, max_cols - l.cols - r.cols), l, r)

\* SOFT: the left group at its natural width, then the right group in what
\* remains; when they use the budget up the fill emits nothing
PadAfterLeft(node, data, buf, max_cols, l) ==
  PadBetween(node, buf, max_cols, l,
             node_render(node_get_child(node, ENP_RIGHT), data, <<>>,
                         max_cols - l.cols, 0))

\* HARD: the right group first, the left group is cut to what remains
PadAfterRight(node, data, buf, max_cols, r) ==
  PadBetween(node, buf, max_cols,
             node_render(node_get_child(node, ENP_LEFT), data, <<>>,
                         max_cols - r.cols, 0),
             r)

\* a Padding node.  EOL: the fill goes to the end of the row, so nothing
\* follows it
RenderPadding(node, data, buf, max_cols) ==
  IF node.pad_type = PAD_SOFT
    THEN PadAfterLeft(node, data, buf, max_cols,
                      node_render(node_get_child(node, ENP_LEFT), data, <<>>, max_cols, 0))
  ELSE IF node.pad_type = PAD_HARD
    THEN PadAfterRight(node, data, buf, max_cols,
                       node_render(node_get_child(node, ENP_RIGHT), data, <<>>, max_cols, 0))
  ELSE PadBetween(node, buf, max_cols,
                  node_render(node_get_child(node, ENP_LEFT), data, <<>>, max_cols, 0),
                  EmptyRender)

\* node->render(node, rdata, buf, max_cols, data, flags) for one node
RenderNode(node, data, buf, max_cols) ==
  IF node.type = ENT_TEXT THEN Rendered(buf, Fit(node.text, max_cols))
  ELSE IF node.type = ENT_EXPANDO THEN RenderExpando(node, data, buf, max_cols)
  ELSE IF node.type = ENT_CONDITION
    THEN RenderCondition(node, data, buf, max_cols,
                         TestTrue(node.children[ENC_CONDITION], data))
  ELSE IF node.type = ENT_PADDING THEN RenderPadding(node, data, buf, max_cols)
  ELSE \* Empty; a CondBool or CondDate is never emitted
       Rendered(buf, <<>>)

\* `total_cols += node->render(...)` and on to the next sibling; r is the
\* result of rendering the head of the list
RenderNext(rest, data, max_cols, total_cols, r) ==
  Invoked(r.used, node_render(rest, data, r.buf, max_cols, total_cols + r.cols))

\* node_render(node, rdata, buf, max_cols, data, flags): the siblings in order,
\* each with the columns that remain, until the budget is used up
node_render(list, data, buf, max_cols, total_cols) ==
  IF list = <<>> \/ ~(total_cols < max_cols)
    THEN [buf |-> buf, cols |-> total_cols, used |-> {}]
    ELSE RenderNext(Tail(list), data, max_cols, total_cols,
                    RenderNode(Head(list), data, buf, max_cols - total_cols))

\* expando_render without `if (max_cols == -1) max_cols = 8192;`
expando_render_NoRemap(exp, rdata_null, data, max_cols, buf) ==
  IF exp.null \/ exp.node = <<>> \/ rdata_null
    THEN [buf |-> buf, cols |-> 0, used |-> {}]
  ELSE node_render(exp.node, data, buf, max_cols, 0)

\* expando_render(exp, rdata, data, flags, max_cols, buf)
expando_render(exp, rdata_null, data, max_cols, buf) ==
  IF exp.null \/ exp.node = <<>> \/ rdata_null
    THEN [buf |-> buf, cols |-> 0, used |-> {}]
  ELSE node_render(exp.node, data, buf,
                   IF max_cols = -1 THEN Unlimited ELSE max_cols, 0)

(***************************************************************************)
(* The callers' inputs.                                                    *)
(***************************************************************************)
Alphabet == {"%", "<", ">", "?", "&", "a"}

\* every string over the alphabet of length at most n
Words(n) == UNION {[1..k -> Alphabet] : k \in 0..n}

\* a string starts at top level, in the true branch of a modern conditional,
\* in the true branch of a legacy conditional or in a false branch
Prefixes ==
  {<<>>, <<"%", "<", "a", "?">>, <<"%", "?", "a", "?">>,
   <<"%", "<", "a", "?", "a", "&">>}

S_EmptyIf == <<"%", "<", "c", "?", ">">>
S_EmptyIfElse == <<"%", "<", "c", "?", "&", ">">>
S_IfEmptyElse == <<"%", "<", "c", "?", "%", "t", "&", ">">>
S_EmptyIfFull == <<"%", "<", "c", "?", "&", "%", "f", ">">>
S_ThenElse == <<"%", "<", "c", "?", "%", "t", "&", "%", "f", ">">>
S_MissingEnd == <<"%", "<", "c", "?", "x", "x", "x">>
S_NestedNew ==
  <<"%", "<", "a", "?", "%", "<", "b", "?", "x", "&", "y", ">", "&", "z", ">">>
S_NestedOld ==
  <<"%", "?", "a", "?", "%", "<", "b", "?", "x", "&", "y", ">", "&", "z", "?">>
S_NestedTest == <<"%", "<", "<", "a", "?", "b", ">", "?", "c", ">">>
S_EscapedEnd == <<"%", "<", "a", "?", "x", "%", "%", ">">>
S_EscapedAmp == <<"%", "<", "a", "?", "x", "%", "&", "y", ">">>
S_LeakTrue == <<"%", "<", "a", "?", "%", "a", "%", "z", ">">>
S_LeakFalse == <<"%", "<", "a", "?", "x", "&", "%", "a", "%", "z", ">">>
S_Overrun == <<"%", "<", "a", "?", "%", "?", "a", "?", "x", "&", "y", "?", ">">>
S_TextThenIf == <<"x", "%", "a", "%", "<", "a", "?", "x", "&", "y", ">", "z">>
S_Unknown == <<"x", "%", "z">>
S_PercentBranch == <<"%", "<", "a", "?", "%", "%", "&", "y", ">">>
S_Branches == <<"%", "<", "c", "?", "x", "%", "t", "&", "%", "f", "y", ">">>
S_DateNested ==
  <<"%", "<", "[", "1", "m", "?", "%", "c", "&", "%", "<", "c", "?", "%", "t", ">", ">">>
S_Date ==
  <<"%", "<", "[", "1", "m", "?", "a", "&", "b", "a", "n", "a", "n", "a", ">">>

\* format specs: justification, leader, min-width and max-width
S_Left == <<"%", "-", "5", "c">>
S_Right == <<"%", "5", "c">>
S_Centre == <<"%", "=", "5", "c">>
S_Zero == <<"%", "0", "5", "c">>
S_Precision == <<"%", ".", "2", "t">>
S_Malformed == <<"%", "5", ".", "c">>

\* padding: soft fill, hard fill, fill to the end of the row
S_PadSoft == <<"A", "%", ">", ".", "B">>
S_PadHard == <<"A", "B", "%", "|", ".", "C">>
S_PadEol == <<"A", "%", "*", ".", "B">>
S_PadData == <<"%", "c", "%", ">", ".", "%", "t">>

\* the strings that are compiled against a table with the padding codes
PaddedFormats == {S_PadSoft, S_PadHard, S_PadEol, S_PadData}

\* the table a caller hands to expando_parse with a format string
DefsArg(str) ==
  IF ~str.null /\ str.chars \in PaddedFormats THEN PaddedDef ELSE FormatDef

Scenarios ==
  {S_Left, S_Right, S_Centre, S_Zero, S_Precision, S_Malformed,
   S_PadSoft, S_PadHard, S_PadEol, S_PadData, S_EmptyIf, S_EmptyIfElse, S_IfEmptyElse, S_EmptyIfFull, S_ThenElse,
   S_MissingEnd, S_NestedNew, S_NestedOld, S_NestedTest, S_EscapedEnd,
   S_EscapedAmp, S_LeakTrue, S_LeakFalse, S_Overrun, S_TextThenIf, S_Unknown,
   S_PercentBranch, S_Branches, S_Date, S_DateNested}

Formats == {p \o w : p \in Prefixes, w \in Words(MaxLen)} \cup Scenarios

\* what the second caller may compile instead of fmt
AltFormats == {<<"%", "?", "a", "?", "?">>}

\* the format strings that are compiled and then rendered
RenderFormats ==
  {p \o w : p \in Prefixes, w \in Words(MaxRenderLen)} \cup Scenarios

\* what the callbacks produce for a code: nothing, a short string, a string
\* with a wide character
Value(str, num) == [str |-> str, num |-> num]

\* the dates are those of test_expando_conditional_date_render: now, and a
\* year ago
RenderData ==
  {[code \in FormatDef |->
      IF code \in DateDef THEN Value(<<>>, DateNow) ELSE Value(<<>>, 0)],
   [code \in FormatDef |->
      IF code \in DateDef THEN Value(<<>>, DateNow - PeriodDays("y"))
      ELSE Value(<<"v">>, 1)],
   [code \in FormatDef |->
      IF code \in DateDef THEN Value(<<>>, DateNow)
      ELSE IF code \in {"a", "c"} THEN Value(<<"W", "v">>, 2) ELSE Value(<<>>, 0)],
   [code \in FormatDef |->
      IF code \in DateDef THEN Value(<<>>, DateNow)
      ELSE IF code = "t" THEN Value(<<"a", "b", "c", "d">>, 4)
      ELSE Value(<<"a", "b">>, 2)]}

\* the column budgets a caller hands to expando_render: a row that is filled
\* to its end is rendered with the small budgets
MaxColsArgs(exp) ==
  IF ~exp.null /\ PaddingIndex(exp.node, 1) # 0 THEN {-2} \cup (0..MaxCols)
  ELSE {-2, -1} \cup (0..MaxCols) \cup {Unlimited}

\* a NULL callback table is tried with the unlimited budget
RdataNullArgs(max_cols) == IF max_cols = Unlimited THEN BOOLEAN ELSE {FALSE}

\* what the output buffer may hold before a render
BufArgs == {<<>>, <<"p">>}

Slots == {1, 2}

\* the strings a caller may hand to expando_parse for a slot
StrArgs(slot) ==
  IF slot = 1 THEN {fmt} ELSE {fmt} \cup {Str(a) : a \in AltFormats}

\* the defs arguments a caller may hand to expando_parse: a NULL table is
\* tried with the scenario strings
DefsNullArgs(slot) ==
  IF slot = 1 /\ fmt.chars \in Scenarios THEN BOOLEAN ELSE {FALSE}

(***************************************************************************)
(* Maildir: the flags in a file name.  A file name is a C string; the      *)
(* flags follow the last field delimiter and "2,".                         *)
(***************************************************************************)
\* *cc_maildir_field_delimiter(): the default of $maildir_field_delimiter
Delimiter == ":"

\* strrchr(s, c): the last c in s, NULL when there is none
strrchr(s, c) ==
  IF \E i \in 1..Len(s) : s[i] = c
    THEN CHOOSE i \in 1..Len(s) : s[i] = c /\ \A k \in (i + 1)..Len(s) : s[k] # c
    ELSE NULL

\* mutt_str_startswith(s + p - 1, prefix) != 0
mutt_str_startswith(s, p, prefix) ==
  \A i \in 1..Len(prefix) : At(s, p + i - 1) = prefix[i]

\* maildir_email_new(): an Email with its MaildirEmailData; custom_flags is
\* the field of the MaildirEmailData
maildir_email_new ==
  [flagged |-> FALSE, read |-> FALSE, replied |-> FALSE, old |-> FALSE,
   trash |-> FALSE, deleted |-> FALSE, purge |-> FALSE, changed |-> FALSE,
   path |-> <<>>, custom_flags |-> NullString]

\* case 'T': trashed, unless the Email is flagged and $flag_safe is set
FlagTrashed(e, flag_safe) ==
  IF ~e.flagged \/ ~flag_safe
    THEN [e EXCEPT !.trash = TRUE, !.deleted = TRUE]
    ELSE e

\* the switch (*p) of maildir_parse_flags; q is what was copied to
\* custom_flags so far
FlagLetter(ch, e, q, flag_safe) ==
  IF ch = "F" THEN [e |-> [e EXCEPT !.flagged = TRUE], q |-> q]
  ELSE IF ch = "R" THEN [e |-> [e EXCEPT !.replied = TRUE], q |-> q]
  ELSE IF ch = "S" THEN [e |-> [e EXCEPT !.read = TRUE], q |-> q]
  ELSE IF ch = "T" THEN [e |-> FlagTrashed(e, flag_safe), q |-> q]
  ELSE [e |-> e, q |-> Append(q, ch)]

RECURSIVE FlagLoop(_, _, _, _)
\* `while (*p) { switch (*p) ...; p++; }`; st is [e, q]
FlagLoop(path, p, st, flag_safe) ==
  IF At(path, p) = NUL THEN st
  ELSE FlagLoop(path, p + 1, FlagLetter(At(path, p), st.e, st.q, flag_safe), flag_safe)

\* the end of maildir_parse_flags: custom_flags is freed when no letter was
\* copied to it, and terminated after the last copied letter otherwise
FlagsFinish(st) ==
  [st.e EXCEPT !.custom_flags = IF st.q = <<>> THEN NullString ELSE Str(st.q)]

\* maildir_parse_flags(e, path), with the value of $flag_safe
maildir_parse_flags(e, path, flag_safe) ==
  IF strrchr(path, Delimiter) # NULL
     /\ mutt_str_startswith(path, strrchr(path, Delimiter) + 1, <<"2", ",">>)
    THEN FlagsFinish(
           FlagLoop(path, strrchr(path, Delimiter) + 3,
                    [e |-> [e EXCEPT !.flagged = FALSE, !.read = FALSE,
                                     !.replied = FALSE],
                     q |-> <<>>],
                    flag_safe))
    ELSE [e EXCEPT !.flagged = FALSE, !.read = FALSE, !.replied = FALSE]

\* the letters a file name may carry after "2,": the four known flags and one
\* custom flag
FlagLetters == {"F", "R", "S", "T", "a"}

\* every string of at most n flag letters
FlagWords(n) == UNION {[1..k -> FlagLetters] : k \in 0..n}

\* a file name without flags, with the flags field, with a field of another
\* version, and with two delimiters
NameStems ==
  {<<"m">>, <<"m", ":", "2", ",">>, <<"m", ":", "1", ",">>,
   <<"m", ":", "x", ":", "2", ",">>}

\* the paths handed to maildir_parse_flags
FlagPaths == {stem \o w : stem \in NameStems, w \in FlagWords(MaxFlagLen)}

\* the Emails handed to maildir_parse_flags: a new one, as in
\* maildir_parse_dir, and one that was parsed before
FlagEmails ==
  {maildir_email_new,
   [maildir_email_new EXCEPT !.flagged = TRUE, !.read = TRUE, !.replied = TRUE,
                             !.custom_flags = Str(<<"a">>)]}

NoFlagsCall ==
  [done |-> FALSE, path |-> <<>>, flag_safe |-> FALSE, before |-> maildir_email_new,
   e |-> maildir_email_new]

(***************************************************************************)
(* Maildir: scanning a subdirectory.  A directory entry is [name, inode];  *)
(* an entry of the MdEmailArray is [email, inode, canon_fname, parsed],    *)
(* with email <<>> for NULL.  A maildir_parse_dir call returns rc, the     *)
(* array, SigInt after the call and the pooled buffers it acquired and     *)
(* released.                                                               *)
(***************************************************************************)
SubdirNew == <<"n", "e", "w">>
SubdirCur == <<"c", "u", "r">>
Subdirs == {SubdirNew, SubdirCur}

\* no signal arrives during a call
NoSignal == -1

\* the entries "." and ".." that readdir returns for every directory
DotEntries ==
  <<[name |-> <<".">>, inode |-> 0], [name |-> <<".", ".">>, inode |-> 0]>>

\* the body of the readdir loop for entry de: a new Email with the flags of the
\* file name and the path "subdir/name", queued with the inode of the file
QueueEntry(mda, subdir, de, flag_safe) ==
  IF de.name[1] = "."
    THEN mda
    ELSE Append(mda,
           [email |-> <<[maildir_parse_flags(
                           [maildir_email_new EXCEPT !.old = (subdir = SubdirCur)],
                           de.name, flag_safe)
                         EXCEPT !.path = subdir \o <<"/">> \o de.name]>>,
            inode |-> de.inode, canon_fname |-> <<>>, parsed |-> FALSE])

RECURSIVE ReadLoop(_, _, _, _, _, _)
\* `while (((de = readdir(dir))) && !SigInt)`: i is the next entry of the
\* listing, signal the number of entries read when SigInt is raised
ReadLoop(listing, i, signal, mda, subdir, flag_safe) ==
  IF i > Len(listing) \/ signal = i - 1
    THEN mda
    ELSE ReadLoop(listing, i + 1, signal,
                  QueueEntry(mda, subdir, listing[i], flag_safe), subdir, flag_safe)

RECURSIVE SortByInode(_, _)
\* ARRAY_SORT(mda, maildir_sort_inode, NULL): the order of two entries with
\* the same inode is not defined; rev tells whether the sort reverses them
SortByInode(mda, rev) ==
  IF Len(mda) <= 1 THEN mda
  ELSE LET least == CHOOSE i \in 1..Len(mda) :
                      \A k \in 1..Len(mda) :
                        \/ mda[i].inode < mda[k].inode
                        \/ /\ mda[i].inode = mda[k].inode
                           /\ IF rev THEN i >= k ELSE i <= k
       IN  <<mda[least]>>
             \o SortByInode(SubSeq(mda, 1, least - 1)
                              \o SubSeq(mda, least + 1, Len(mda)), rev)

\* maildir_parse_dir after the readdir loop and closedir
ScanFinish(mda, interrupted, rev) ==
  IF interrupted
    THEN \* SigInt = false; return -2;
         [rc |-> -2, mda |-> mda, SigInt |-> FALSE, gets |-> 1, releases |-> 0]
    ELSE \* ARRAY_SORT(...); cleanup: buf_pool_release(&buf); return rc;
         [rc |-> 0, mda |-> SortByInode(mda, rev), SigInt |-> FALSE, gets |-> 1,
          releases |-> 1]

\* maildir_parse_dir(m, mda, subdir, progress).  listing is what readdir
\* returns for the subdirectory, open_ok whether mutt_file_opendir succeeds,
\* SigInt_ the value of SigInt at the call, signal the number of entries read
\* when SigInt is raised during the call (NoSignal: it is not)
maildir_parse_dir(mda, subdir, listing, open_ok, SigInt_, signal, flag_safe, rev) ==
  IF ~open_ok
    THEN \* rc = -1; goto cleanup;
         [rc |-> -1, mda |-> mda, SigInt |-> SigInt_, gets |-> 1, releases |-> 1]
    ELSE ScanFinish(ReadLoop(listing, 1, IF SigInt_ THEN 0 ELSE signal, mda, subdir,
                             flag_safe),
                    SigInt_ \/ signal # NoSignal, rev)

(***************************************************************************)
(* Maildir: checking a mailbox for changes.                                *)
(***************************************************************************)
MX_STATUS_ERROR == "MX_STATUS_ERROR"
MX_STATUS_OK == "MX_STATUS_OK"
MX_STATUS_NEW_MAIL == "MX_STATUS_NEW_MAIL"
MX_STATUS_REOPENED == "MX_STATUS_REOPENED"
MX_STATUS_FLAGS == "MX_STATUS_FLAGS"

\* maildir_canon_filename(buf, path): the file name without its directory and
\* without what follows the first ',' or field delimiter
maildir_canon_filename(path) ==
  LET name == SubSeq(path, strrchr(path, "/") + 1, Len(path))
  IN  IF \E i \in 1..Len(name) : name[i] \in {",", Delimiter}
        THEN SubSeq(name, 1,
                    (CHOOSE i \in 1..Len(name) :
                       /\ name[i] \in {",", Delimiter}
                       /\ \A k \in 1..(i - 1) : name[k] \notin {",", Delimiter}) - 1)
        ELSE name

\* the loop that fills hash_names: every entry gets its canonical file name
Canonical(mda) ==
  [i \in 1..Len(mda) |->
     [mda[i] EXCEPT !.canon_fname = maildir_canon_filename(mda[i].email[1].path)]]

\* mutt_hash_find(hash_names, name): the index of the entry, NULL for none
HashFind(mda, name) ==
  IF \E i \in 1..Len(mda) : mda[i].canon_fname = name
    THEN CHOOSE i \in 1..Len(mda) :
           /\ mda[i].canon_fname = name
           /\ \A k \in 1..(i - 1) : mda[k].canon_fname # name
    ELSE NULL

\* maildir_update_flags(m, e_old, e_new): the flags of the file replace those
\* of the Email; changed tells whether one of them differed
maildir_update_flags(e_old, e_new) ==
  [e |-> [e_old EXCEPT !.flagged = e_new.flagged, !.replied = e_new.replied,
                       !.read = e_new.read, !.old = e_new.old, !.changed = FALSE],
   changed |-> \/ e_old.flagged # e_new.flagged
               \/ e_old.replied # e_new.replied
               \/ e_old.read # e_new.read
               \/ e_old.old # e_new.old]

\* `if (e->deleted == e->trash) if (e->deleted != md->email->deleted) ...` and
\* `e->trash = md->email->trash;`; u is the result of the flag update
MergeDeleted(u, e_new) ==
  IF u.e.deleted = u.e.trash /\ u.e.deleted # e_new.deleted
    THEN [e |-> [u.e EXCEPT !.deleted = e_new.deleted, !.trash = e_new.trash],
          changed |-> TRUE]
    ELSE [e |-> [u.e EXCEPT !.trash = e_new.trash], changed |-> u.changed]

\* "message already exists, merge flags": e is the Email of the mailbox, e_new
\* the Email of the scanned file
MergeEmail(e, e_new) ==
  MergeDeleted(IF ~e.changed
                 THEN maildir_update_flags([e EXCEPT !.path = e_new.path], e_new)
                 ELSE [e |-> [e EXCEPT !.path = e_new.path], changed |-> FALSE],
               e_new)

\* mutt_strn_equal(e->path, "new/", 4) for a rescanned subdirectory
InChanged(path, changed) ==
  \E subdir \in changed : SubSeq(path, 1, 4) = subdir \o <<"/">>

\* m->emails[i] of an array that is allocated: slot i, <<>> for NULL.
\* mx_alloc_memory allocates the array in steps larger than any msg_count of
\* the model, with every new slot NULL
Slot(emails, i) == IF i <= Len(emails) THEN emails[i] ELSE <<>>

\* m->emails[i] = s
SetSlot(emails, i, s) ==
  [k \in 1..(IF i > Len(emails) THEN i ELSE Len(emails)) |->
     IF k = i THEN s ELSE Slot(emails, k)]

\* one round of the loop over the Emails of the mailbox; st is [emails, mda,
\* occult, flags_changed, fault], found the result of the hash lookup for
\* Email i
MergeStep(st, i, found, changed) ==
  IF found # NULL /\ st.mda[found].email # <<>>
    THEN [emails |-> [st.emails EXCEPT
                        ![i] = <<MergeEmail(@[1], st.mda[found].email[1]).e>>],
          mda |-> [st.mda EXCEPT ![found].email = <<>>],
          occult |-> st.occult,
          flags_changed |->
            st.flags_changed
            \/ MergeEmail(st.emails[i][1], st.mda[found].email[1]).changed,
          fault |-> FALSE]
  ELSE IF InChanged(st.emails[i][1].path, changed)
    THEN [emails |-> [st.emails EXCEPT
                        ![i] = <<[@[1] EXCEPT !.deleted = TRUE, !.purge = TRUE]>>],
          mda |-> st.mda, occult |-> TRUE, flags_changed |-> st.flags_changed,
          fault |-> FALSE]
  ELSE st

RECURSIVE MergeLoop(_, _, _, _, _)
\* `for (int i = 0; i < m->msg_count; i++)` with `struct Email *e =
\* m->emails[i]; if (!e) break;`.  alloc tells whether m->emails is allocated;
\* when it is NULL the read of m->emails[i] is a read through a NULL pointer,
\* and the program is killed (fault)
MergeLoop(st, i, msg_count, changed, alloc) ==
  IF i > msg_count THEN st
  ELSE IF ~alloc THEN [st EXCEPT !.fault = TRUE]
  ELSE IF Slot(st.emails, i) = <<>> THEN st
  ELSE MergeLoop(MergeStep(st, i,
                           HashFind(st.mda,
                                    maildir_canon_filename(st.emails[i][1].path)),
                           changed),
                 i + 1, msg_count, changed, alloc)

\* the file of the Maildir at mailbox_path(m) that has the path fname: its
\* index, NULL when there is none
FileAt(files, mpath, fname) ==
  IF \E i \in 1..Len(files) :
       mpath \o <<"/">> \o files[i].dir \o <<"/">> \o files[i].name = fname
    THEN CHOOSE i \in 1..Len(files) :
           mpath \o <<"/">> \o files[i].dir \o <<"/">> \o files[i].name = fname
    ELSE NULL

\* maildir_parse_stream(fp, fname, is_old, e) on a file of size bytes: false
\* for an empty file; otherwise the header is read, old is set and the flags
\* are read from fname, the full path of the file.  Of what
\* mutt_rfc822_read_header sets the model keeps nothing
maildir_parse_stream(size, fname, is_old, e, flag_safe) ==
  IF size = 0
    THEN [ok |-> FALSE, e |-> e]
    ELSE [ok |-> TRUE,
          e |-> maildir_parse_flags([e EXCEPT !.old = is_old], fname, flag_safe)]

\* maildir_parse_message(fname, is_old, e): false when the file cannot be
\* opened
maildir_parse_message(files, mpath, fname, is_old, e, flag_safe) ==
  IF FileAt(files, mpath, fname) = NULL
    THEN [ok |-> FALSE, e |-> e]
    ELSE maildir_parse_stream(files[FileAt(files, mpath, fname)].size, fname,
                              is_old, e, flag_safe)

\* the body of the loop of maildir_delayed_parsing for the entry md, without
\* a header cache: parsed is what maildir_parse_message returned
DelayedEntry(md, parsed) ==
  IF parsed.ok
    THEN [md EXCEPT !.parsed = TRUE, !.email = <<parsed.e>>]
    ELSE \* email_free(&md->email);
         [md EXCEPT !.email = <<>>]

\* maildir_delayed_parsing(m, &mda, progress): the header of every queued
\* Email is read from the file mailbox_path(m) "/" e->path
maildir_delayed_parsing(mda, files, mpath, flag_safe) ==
  [i \in 1..Len(mda) |->
     IF mda[i].email = <<>> \/ mda[i].parsed THEN mda[i]
     ELSE DelayedEntry(mda[i],
                       maildir_parse_message(
                         files, mpath, mpath \o <<"/">> \o mda[i].email[1].path,
                         mda[i].email[1].old, mda[i].email[1], flag_safe))]

RECURSIVE maildir_move_to_mailbox(_, _, _, _)
\* maildir_move_to_mailbox(m, &mda): the Emails left in the array are stored
\* at m->emails[m->msg_count], from entry i on; mx_alloc_memory(m,
\* m->msg_count) before each store makes the slot exist
maildir_move_to_mailbox(emails, msg_count, mda, i) ==
  IF i > Len(mda) THEN [emails |-> emails, msg_count |-> msg_count]
  ELSE IF mda[i].email = <<>>
    THEN maildir_move_to_mailbox(emails, msg_count, mda, i + 1)
  ELSE maildir_move_to_mailbox(SetSlot(emails, msg_count + 1, mda[i].email),
                               msg_count + 1, mda, i + 1)

\* the return value of maildir_check after a scan
CheckStatus(occult, num_new, flags_changed) ==
  IF occult THEN MX_STATUS_REOPENED
  ELSE IF num_new > 0 THEN MX_STATUS_NEW_MAIL
  ELSE IF flags_changed THEN MX_STATUS_FLAGS
  ELSE MX_STATUS_OK

(***************************************************************************)
(* Maildir: the mailbox and the calls on it.  A call makes its system     *)
(* calls one after the other, and other programs change the Maildir in    *)
(* between: a call is a sequence of steps, each up to and including one   *)
(* look at the disk, and m.pc tells which step is next.  The mtime of a   *)
(* subdirectory is the number of changes made to it.  m.last holds the    *)
(* locals of the call that is running, or of the last call that returned. *)
(***************************************************************************)
MX_OPEN_OK == "MX_OPEN_OK"
MX_OPEN_ERROR == "MX_OPEN_ERROR"

\* the files of a subdirectory of the mailbox m
FilesIn(m, subdir) == SelectSeq(m.files, LAMBDA f : f.dir = subdir)

\* the orders readdir may return n files in: every permutation
Orders(n) == {order \in [1..n -> 1..n] : \A i, k \in 1..n : order[i] = order[k] => i = k}

\* what readdir returns for a subdirectory of the mailbox m: its files in the
\* order the file system has them in, which is any.  "." and ".." are skipped
\* by every caller wherever they come, so they are put first
Listing(m, subdir, order) ==
  DotEntries
    \o [i \in 1..Len(FilesIn(m, subdir)) |->
         [name |-> FilesIn(m, subdir)[order[i]].name,
          inode |-> FilesIn(m, subdir)[order[i]].inode]]

\* a maildir_parse_dir call as its caller sees it: r is what the call
\* returned, before the value of SigInt when it was made
ScanCall(subdir, before, r) ==
  [subdir |-> subdir, rc |-> r.rc, gets |-> r.gets, releases |-> r.releases,
   before |-> before, SigInt |-> r.SigInt]

\* no call has been made on the mailbox
NoCheck ==
  [fn |-> "none", done |-> FALSE, status |-> MX_STATUS_OK, before |-> <<>>,
   before_count |-> 0, was_new |-> FALSE, stat_ok |-> TRUE,
   st |-> [subdir \in Subdirs |-> 0], changed |-> {}, mda |-> <<>>,
   scans |-> <<>>, listed |-> {}, occult |-> FALSE, num_new |-> 0,
   flags_changed |-> FALSE, check_new |-> FALSE, check_stats |-> FALSE,
   mdata |-> [mtime |-> 0, mtime_cur |-> 0]]

\* the locals of a call of fn that begins on the mailbox m, with the Emails
\* and the recorded mtimes the mailbox has at the call
Begin(m, fn) ==
  [NoCheck EXCEPT !.fn = fn, !.before = m.emails, !.before_count = m.msg_count,
                  !.mdata = m.mdata]

\* the call that is running on m returns status; pc is what the mailbox is
\* ready for next
Return(m, pc, status) ==
  [m EXCEPT !.pc = pc, !.last.done = TRUE, !.last.status = status,
            !.last.mda = <<>>]

\* the messages that have a file in a subdirectory of m: their canonical
\* file names
NamesIn(m, subdir) ==
  {maildir_canon_filename(subdir \o <<"/">> \o FilesIn(m, subdir)[i].name) :
     i \in 1..Len(FilesIn(m, subdir))}

\* the mailbox after a maildir_parse_dir call that returned r; listed keeps
\* what the subdirectory held when the call was made
Scanned(m, subdir, r) ==
  [m EXCEPT !.SigInt = r.SigInt, !.last.mda = r.mda,
            !.last.scans = Append(@, ScanCall(subdir, m.SigInt, r)),
            !.last.listed = @ \cup NamesIn(m, subdir)]

\* maildir_check(m) up to its first stat call: c_check_new is the value of
\* $check_new at the call, `if (!c_check_new) return MX_STATUS_OK;`, and the
\* stat of new/
CheckStatNew(m, c_check_new, stat_ok) ==
  IF ~c_check_new
    THEN Return([m EXCEPT !.last = Begin(m, "maildir_check")], "idle", MX_STATUS_OK)
  ELSE IF ~stat_ok
    THEN Return([m EXCEPT !.last = [Begin(m, "maildir_check") EXCEPT
                                      !.was_new = TRUE, !.stat_ok = FALSE]],
                "idle", MX_STATUS_ERROR)
  ELSE [m EXCEPT !.pc = "check_stat_cur",
                 !.last = [Begin(m, "maildir_check") EXCEPT
                             !.was_new = TRUE,
                             !.st[SubdirNew] = m.mtime[SubdirNew]]]

\* "determine which subdirectories need to be scanned": st are the results of
\* the two stat calls
Changed(m, st) ==
  {subdir \in Subdirs :
     \/ subdir = SubdirNew /\ st[SubdirNew] > m.mdata.mtime
     \/ subdir = SubdirCur /\ st[SubdirCur] > m.mdata.mtime_cur}

\* maildir_check after the two stat calls, built without USE_INOTIFY:
\* `if (changed == MMC_NO_DIRS) return MX_STATUS_OK;`, and the mtimes that the
\* stat calls gave are recorded
CheckChanged(m) ==
  IF Changed(m, m.last.st) = {}
    THEN Return(m, "idle", MX_STATUS_OK)
    ELSE [m EXCEPT !.pc = IF SubdirNew \in Changed(m, m.last.st)
                            THEN "check_scan_new" ELSE "check_scan_cur",
                   !.mdata = [mtime |-> m.last.st[SubdirNew],
                              mtime_cur |-> m.last.st[SubdirCur]],
                   !.last.changed = Changed(m, m.last.st)]

\* maildir_check: the stat of cur/
CheckStatCur(m, stat_ok) ==
  IF ~stat_ok
    THEN Return([m EXCEPT !.last.stat_ok = FALSE], "idle", MX_STATUS_ERROR)
    ELSE CheckChanged([m EXCEPT !.last.st[SubdirCur] = m.mtime[SubdirCur]])

\* the program is killed in the call that is running (SIGSEGV): the call does
\* not return and nothing follows
Killed(m) == [m EXCEPT !.pc = "killed", !.last.mda = <<>>]

\* maildir_check from the hash table to the end of the loop over the Emails of
\* the mailbox: st is the result of the loop
CheckMerged(m, st) ==
  IF st.fault THEN Killed(m)
  ELSE
  [m EXCEPT !.pc = "check_parse", !.emails = st.emails, !.last.mda = st.mda,
            !.last.occult = st.occult, !.last.flags_changed = st.flags_changed]

\* maildir_check after its scans
CheckMerge(m) ==
  CheckMerged(m, MergeLoop([emails |-> m.emails, mda |-> Canonical(m.last.mda),
                            occult |-> FALSE, flags_changed |-> FALSE,
                            fault |-> FALSE],
                           1, m.msg_count, m.last.changed, m.alloc))

\* `if (changed & MMC_NEW_DIR) maildir_parse_dir(m, &mda, "new", NULL);`: r is
\* what the call returned
CheckScanNew(m, r) ==
  IF SubdirCur \in m.last.changed
    THEN [Scanned(m, SubdirNew, r) EXCEPT !.pc = "check_scan_cur"]
    ELSE CheckMerge(Scanned(m, SubdirNew, r))

\* `if (changed & MMC_CUR_DIR) maildir_parse_dir(m, &mda, "cur", NULL);`
CheckScanCur(m, r) == CheckMerge(Scanned(m, SubdirCur, r))

\* maildir_check from maildir_move_to_mailbox on: moved is what the move left
CheckFinish(m, moved) ==
  Return([m EXCEPT !.emails = moved.emails, !.msg_count = moved.msg_count,
                   !.alloc = @ \/ moved.msg_count > m.msg_count,
                   !.changed = @ \/ moved.msg_count > m.msg_count,
                   !.last.num_new = moved.msg_count - m.msg_count],
         "idle",
         CheckStatus(m.last.occult, moved.msg_count - m.msg_count,
                     m.last.flags_changed))

\* maildir_check from the delayed parsing on
CheckParse(m) ==
  CheckFinish(m, maildir_move_to_mailbox(
                   m.emails, m.msg_count,
                   maildir_delayed_parsing(m.last.mda, m.files, m.path,
                                           m.flag_safe), 1))

\* maildir_read_dir(m, subdir) up to the return of maildir_parse_dir, called by
\* maildir_mbox_open: r is what maildir_parse_dir returned
ReadDirScan(m, subdir, r) ==
  IF r.rc < 0
    THEN \* return -1; and maildir_mbox_open returns MX_OPEN_ERROR
         Return(Scanned(m, subdir, r), "failed", MX_OPEN_ERROR)
    ELSE [Scanned(m, subdir, r) EXCEPT
            !.pc = IF subdir = SubdirNew THEN "open_parse_new" ELSE "open_parse_cur"]

\* maildir_read_dir after maildir_move_to_mailbox; after "cur"
\* maildir_mbox_open returns MX_OPEN_OK
ReadDirMoved(m, subdir, moved) ==
  IF subdir = SubdirNew
    THEN [m EXCEPT !.pc = "open_scan_cur", !.emails = moved.emails,
                   !.msg_count = moved.msg_count,
                   !.alloc = @ \/ moved.msg_count > m.msg_count,
                   !.last.mda = <<>>]
    ELSE Return([m EXCEPT !.emails = moved.emails, !.msg_count = moved.msg_count,
                          !.alloc = @ \/ moved.msg_count > m.msg_count],
                "idle", MX_OPEN_OK)

\* maildir_read_dir(m, subdir) from the delayed parsing on
ReadDirParse(m, subdir) ==
  ReadDirMoved(m, subdir,
               maildir_move_to_mailbox(
                 m.emails, m.msg_count,
                 maildir_delayed_parsing(m.last.mda, m.files, m.path,
                                           m.flag_safe), 1))

\* maildir_update_mtime(m) up to its stat of cur/: the mtime is recorded when
\* the stat call succeeds
UpdateMtimeCur(m, stat_ok) ==
  [m EXCEPT !.mdata.mtime_cur = IF stat_ok THEN m.mtime[SubdirCur] ELSE @]

\* maildir_update_mtime(m) from its stat of new/ on
UpdateMtimeNew(m, stat_ok) ==
  [m EXCEPT !.mdata.mtime = IF stat_ok THEN m.mtime[SubdirNew] ELSE @]

\* maildir_mbox_sync: `for (int i = 0; i < m->msg_count; i++)` with the read
\* of m->emails[i], a read through a NULL pointer when m->emails is not
\* allocated.  maildir_sync_mailbox_message is not part of the sources: synced
\* tells whether it returned true for every Email, and what it does to the
\* files and the Emails is left out.  `goto err;` returns MX_STATUS_ERROR
SyncMessages(m, synced) ==
  IF m.msg_count > 0 /\ ~m.alloc THEN Killed(m)
  ELSE IF m.msg_count > 0 /\ ~synced
    THEN Return([m EXCEPT !.last.fn = "maildir_mbox_sync"], "idle", MX_STATUS_ERROR)
  ELSE [m EXCEPT !.pc = "sync_mtime_cur", !.last.fn = "maildir_mbox_sync",
                 !.last.done = FALSE]

\* maildir_mbox_sync from the second stat of maildir_update_mtime on: the
\* indices of the Emails, which `if (m->msg_deleted)` adjusts, are not part of
\* the Emails here; `return check;`
SyncFinish(m, stat_ok) ==
  Return(UpdateMtimeNew(m, stat_ok), "idle", m.last.status)

\* strstr(s, t): where t first occurs in s, NULL when it does not
strstr(s, t) ==
  IF \E i \in 1..(Len(s) - Len(t) + 1) : SubSeq(s, i, i + Len(t) - 1) = t
    THEN CHOOSE i \in 1..(Len(s) - Len(t) + 1) :
           /\ SubSeq(s, i, i + Len(t) - 1) = t
           /\ \A k \in 1..(i - 1) : SubSeq(s, k, k + Len(t) - 1) # t
    ELSE NULL

\* `p && strchr(p + 3, c)`: the flags field of the name has the letter c
HasFlag(name, c) ==
  /\ strstr(name, <<Delimiter, "2", ",">>) # NULL
  /\ \E i \in (strstr(name, <<Delimiter, "2", ",">>) + 3)..Len(name) : name[i] = c

\* the body of the readdir loop of maildir_check_dir for an entry that is
\* neither hidden nor trashed; st is [m, stop]
CountEntry(st, name, check_new, check_stats) ==
  [m |-> [st.m EXCEPT
            !.msg_count = IF check_stats THEN @ + 1 ELSE @,
            !.msg_flagged = IF check_stats /\ HasFlag(name, "F") THEN @ + 1 ELSE @,
            !.msg_unread = IF check_stats /\ ~HasFlag(name, "S") THEN @ + 1 ELSE @,
            !.has_new = @ \/ (check_new /\ ~HasFlag(name, "S")),
            !.msg_new = IF check_new /\ check_stats /\ ~HasFlag(name, "S")
                          THEN @ + 1 ELSE @],
   \* `else break;`
   stop |-> check_new /\ ~check_stats /\ ~HasFlag(name, "S")]

RECURSIVE CountLoop(_, _, _, _, _)
\* `while ((de = readdir(dir)))` of maildir_check_dir, with $mail_check_recent
\* unset
CountLoop(st, listing, i, check_new, check_stats) ==
  IF i > Len(listing) \/ st.stop THEN st.m
  ELSE IF listing[i].name[1] = "." \/ HasFlag(listing[i].name, "T")
    THEN CountLoop(st, listing, i + 1, check_new, check_stats)
  ELSE CountLoop(CountEntry(st, listing[i].name, check_new, check_stats),
                 listing, i + 1, check_new, check_stats)

\* maildir_check_dir(m, dir_name, check_new, check_stats), with
\* $mail_check_recent unset: listing is what readdir returns
maildir_check_dir(m, listing, check_new, check_stats, open_ok) ==
  IF ~(check_new \/ check_stats) THEN m
  ELSE IF ~open_ok THEN [m EXCEPT !.type = "MUTT_UNKNOWN"]
  ELSE CountLoop([m |-> m, stop |-> FALSE], listing, 1, check_new, check_stats)

\* the return value of maildir_mbox_check_stats
StatsStatus(m) == IF m.msg_new # 0 THEN MX_STATUS_NEW_MAIL ELSE MX_STATUS_OK

\* what the mailbox is ready for after a maildir_mbox_check_stats call: a
\* mailbox whose type was set to MUTT_UNKNOWN is not followed further
StatsHome(m) == IF m.type = "MUTT_UNKNOWN" THEN "failed" ELSE "idle"

\* maildir_mbox_check_stats after maildir_check_dir(m, "new", ...): check_cur
\* is $maildir_check_cur
StatsAfterNew(m, check_stats, check_cur) ==
  IF (~m.has_new /\ check_cur) \/ check_stats
    THEN [m EXCEPT !.pc = "stats_cur",
                   !.last.check_new = ~m.has_new /\ check_cur,
                   !.last.check_stats = check_stats]
    ELSE Return(m, StatsHome(m), StatsStatus(m))

\* maildir_mbox_check_stats(m, flags) up to the return of
\* maildir_check_dir(m, "new", ...): check_stats is the flag
\* MUTT_MAILBOX_CHECK_STATS
StatsNew(m, check_stats, check_cur, open_ok, order) ==
  StatsAfterNew(
    maildir_check_dir(
      [m EXCEPT !.msg_new = IF check_stats THEN 0 ELSE @,
                !.msg_count = IF check_stats THEN 0 ELSE @,
                !.msg_unread = IF check_stats THEN 0 ELSE @,
                !.msg_flagged = IF check_stats THEN 0 ELSE @,
                !.last = Begin(m, "maildir_mbox_check_stats")],
      Listing(m, SubdirNew, order), TRUE, check_stats, open_ok),
    check_stats, check_cur)

\* maildir_mbox_check_stats after maildir_check_dir(m, "cur", ...)
StatsCounted(m) == Return(m, StatsHome(m), StatsStatus(m))

\* maildir_mbox_check_stats from maildir_check_dir(m, "cur", ...) on
StatsCur(m, open_ok, order) ==
  StatsCounted(maildir_check_dir(m, Listing(m, SubdirCur, order), m.last.check_new,
                                 m.last.check_stats, open_ok))

\* the messages of the Maildir: their unique names, and their inodes
Bases == {<<"m">>, <<"n">>}

Inode(base) == IF base = <<"m">> THEN 2 ELSE 1

\* what follows the unique name in a file name: nothing, or the flags field
\* with 'F' or with 'T'
Infos == {<<>>, <<":", "2", ",", "F">>, <<":", "2", ",", "T">>}

\* the sizes of the files: empty, or a message
Sizes == {0, 1}

\* a file of the Maildir
File(dir, base, info, size) ==
  [dir |-> dir, name |-> base \o info, inode |-> Inode(base), size |-> size]

\* the Maildir when the mailbox is opened: empty, or with the flagged message
\* m in cur/
InitialFiles == {<<>>, <<File(SubdirCur, <<"m">>, <<":", "2", ",", "F">>, 1)>>}

\* mailbox_path(m)
MailboxPaths == {<<"/", "b">>}

\* a mailbox that is not open yet: no Email, no mtime recorded, $flag_safe at
\* its default.  The caller makes the Mailbox: alloc tells
\* whether it comes with m->emails allocated or NULL
Mailbox(files, path, alloc) ==
  [pc |-> "closed", type |-> "MUTT_MAILDIR", files |-> files, path |-> path,
   alloc |-> alloc,
   mtime |-> [subdir \in Subdirs |-> 1],
   mdata |-> [mtime |-> 0, mtime_cur |-> 0],
   emails |-> <<>>, msg_count |-> 0, msg_new |-> 0, msg_unread |-> 0,
   msg_flagged |-> 0, has_new |-> FALSE, changed |-> FALSE,
   flag_safe |-> FALSE, SigInt |-> FALSE,
   changes |-> 0, last |-> NoCheck]

\* when a signal may arrive during a scan: not at all, or after the entries
\* "." and ".." and any number of the files were read
Signals(n) == {NoSignal} \cup (Len(DotEntries)..(Len(DotEntries) + n))

\* the order ARRAY_SORT may leave two entries of the same inode in: as they
\* were or reversed.  Only a file that was renamed between two scans is in the
\* array twice
TieOrders(mda, files) ==
  IF \E i \in 1..Len(mda), k \in 1..Len(files) : mda[i].inode = files[k].inode
    THEN BOOLEAN ELSE {FALSE}

\* the mailboxes that are opened
Mailboxes ==
  {Mailbox(files, path, alloc) :
     files \in InitialFiles, path \in MailboxPaths, alloc \in BOOLEAN}

NoMailbox == [pc |-> "none"]

(***************************************************************************)
(* The state machine: callers compile, compare, render and free Expandos.  *)
(***************************************************************************)
NoCall ==
  [done |-> FALSE, str |-> NullString, defs_null |-> FALSE, ret_null |-> TRUE,
   buf |-> NoMessage, error |-> NoError, root |-> <<>>,
   live |-> [exps |-> 0, strs |-> 0, nodes |-> 0], lost |-> 0,
   calls |-> 0, repads |-> 0, trace |-> <<>>, list |-> <<>>,
   stack |-> Stack(NoError, <<>>), defs |-> {}]

NoEqual == [done |-> FALSE, a |-> NullExpando, b |-> NullExpando, result |-> FALSE]

NoRender ==
  [done |-> FALSE, slot |-> 0, rdata_null |-> FALSE,
   data |-> [code \in FormatDef |-> Value(<<>>, 0)], max_cols |-> 0,
   pre |-> <<>>, buf |-> <<>>, cols |-> 0, used |-> {}]

Init ==
  /\ fmt \in {NullString} \cup {Str(f) : f \in Formats}
  /\ exps = [slot \in Slots |-> NullExpando]
  /\ calls = [slot \in Slots |-> NoCall]
  /\ eq = NoEqual
  /\ out = NoRender
  /\ pf = NoFlagsCall
  /\ mb = NoMailbox

\* the caller stores what expando_parse returned: r is the result of the
\* call, stack what the stack held when it was made
ParseReturn(slot, str, defs_null, defs, stack, r) ==
  /\ exps' = [exps EXCEPT ![slot] = r.ret]
  /\ calls' = [calls EXCEPT ![slot] =
       [done |-> TRUE, str |-> str, defs_null |-> defs_null,
        ret_null |-> r.ret.null, buf |-> r.buf, error |-> r.error,
        root |-> r.root, live |-> r.live, lost |-> r.lost,
        calls |-> r.calls, repads |-> r.repads, trace |-> r.trace,
        list |-> r.list, stack |-> stack, defs |-> defs]]

\* exps[slot] = expando_parse(str, defs, err), with an empty err buffer; the
\* stack of the call is as one of the calls before it left it
ExpandoParse(slot) ==
  /\ exps[slot].null
  /\ \E str \in StrArgs(slot), defs_null \in DefsNullArgs(slot), prev \in Slots :
       ParseReturn(slot, str, defs_null, DefsArg(str),
                   Stack(calls[prev].error, calls[prev].root),
                   expando_parse(str, defs_null, DefsArg(str), NoMessage,
                                 Stack(calls[prev].error, calls[prev].root)))
  /\ eq' = NoEqual
  /\ out' = NoRender
  /\ UNCHANGED <<fmt, pf, mb>>

\* exps[slot] = expando_new(str): an Expando that holds its string and no tree
ExpandoNew(slot) ==
  /\ exps[slot].null
  /\ \E str \in StrArgs(slot) :
       exps' = [exps EXCEPT ![slot] = expando_new(str)]
  /\ calls' = [calls EXCEPT ![slot] = NoCall]
  /\ eq' = NoEqual
  /\ out' = NoRender
  /\ UNCHANGED <<fmt, pf, mb>>

\* expando_free(&exps[slot])
ExpandoFree(slot) ==
  /\ exps' = [exps EXCEPT ![slot] = NullExpando]
  /\ calls' = [calls EXCEPT ![slot] = NoCall]
  /\ eq' = NoEqual
  /\ out' = NoRender
  /\ UNCHANGED <<fmt, pf, mb>>

\* expando_equal(exps[a], exps[b])
ExpandoEqual(a, b) ==
  /\ eq' = [done |-> TRUE, a |-> exps[a], b |-> exps[b],
            result |-> expando_equal(exps[a], exps[b])]
  /\ out' = NoRender
  /\ UNCHANGED <<fmt, exps, calls, pf, mb>>

\* the caller keeps what expando_render did: r is the result of the call
RenderReturn(slot, rdata_null, data, max_cols, pre, r) ==
  out' = [done |-> TRUE, slot |-> slot, rdata_null |-> rdata_null, data |-> data,
          max_cols |-> max_cols, pre |-> pre, buf |-> r.buf, cols |-> r.cols,
          used |-> r.used]

\* expando_render(exps[slot], rdata, data, flags, max_cols, buf)
ExpandoRender(slot) ==
  /\ \E data \in RenderData, max_cols \in MaxColsArgs(exps[slot]), pre \in BufArgs :
     \E rdata_null \in RdataNullArgs(max_cols) :
       RenderReturn(slot, rdata_null, data, max_cols, pre,
                    expando_render(exps[slot], rdata_null, data, max_cols, pre))
  /\ eq' = NoEqual
  /\ UNCHANGED <<fmt, exps, calls, pf, mb>>

Next ==
  \/ \E slot \in Slots : ExpandoParse(slot)
  \/ \E slot \in Slots : ExpandoNew(slot)
  \/ \E slot \in Slots : ExpandoFree(slot)
  \/ \E a \in Slots, b \in Slots : ExpandoEqual(a, b)

Spec == Init /\ [][Next]_vars

\* one caller compiles a format string and renders it
InitRender ==
  /\ fmt \in {Str(f) : f \in RenderFormats}
  /\ exps = [slot \in Slots |-> NullExpando]
  /\ calls = [slot \in Slots |-> NoCall]
  /\ eq = NoEqual
  /\ out = NoRender
  /\ pf = NoFlagsCall
  /\ mb = NoMailbox

NextRender ==
  \/ ExpandoParse(1)
  \/ ExpandoNew(1)
  \/ ExpandoRender(1)
  \/ ExpandoFree(1)

SpecRender == InitRender /\ [][NextRender]_vars

(***************************************************************************)
(* A caller hands an Email and a file name to maildir_parse_flags.         *)
(***************************************************************************)
InitFlags ==
  /\ fmt = NullString
  /\ exps = [slot \in Slots |-> NullExpando]
  /\ calls = [slot \in Slots |-> NoCall]
  /\ eq = NoEqual
  /\ out = NoRender
  /\ pf \in {[done |-> FALSE, path |-> path, flag_safe |-> flag_safe,
               before |-> e, e |-> e] :
               path \in FlagPaths, flag_safe \in BOOLEAN, e \in FlagEmails}
  /\ mb = NoMailbox

\* maildir_parse_flags(e, path)
MaildirParseFlags ==
  /\ ~pf.done
  /\ pf' = [pf EXCEPT !.done = TRUE,
                      !.e = maildir_parse_flags(pf.e, pf.path, pf.flag_safe)]
  /\ UNCHANGED <<fmt, exps, calls, eq, out, mb>>

NextFlags == MaildirParseFlags

SpecFlags == InitFlags /\ [][NextFlags]_vars

(***************************************************************************)
(* A Maildir mailbox is opened and then checked and synced, its           *)
(* statistics are counted and its mtimes are recorded, one call after the  *)
(* other; between any two steps of a call other programs deliver, rename   *)
(* and remove files of the Maildir, and a signal may arrive.               *)
(***************************************************************************)
InitMaildir ==
  /\ fmt = NullString
  /\ exps = [slot \in Slots |-> NullExpando]
  /\ calls = [slot \in Slots |-> NoCall]
  /\ eq = NoEqual
  /\ out = NoRender
  /\ pf = NoFlagsCall
  /\ mb \in Mailboxes

\* the files of the Maildir that hold the message base: their indexes
FilesOf(base) ==
  {i \in 1..Len(mb.files) : maildir_canon_filename(mb.files[i].name) = base}

\* another program may change the Maildir
MayChange == mb.changes < MaxChanges /\ mb.pc \notin {"failed", "killed"}

\* a message is delivered to new/, or an empty file is left there
Deliver(base, size) ==
  /\ MayChange
  /\ FilesOf(base) = {}
  /\ mb' = [mb EXCEPT !.files = Append(@, File(SubdirNew, base, <<>>, size)),
                      !.mtime[SubdirNew] = @ + 1,
                      !.changes = @ + 1]
  /\ UNCHANGED <<fmt, exps, calls, eq, out, pf>>

\* another program moves the file of a message to cur/ and sets its flags
Rename(base, info) ==
  /\ MayChange
  /\ info # <<>>
  /\ \E i \in FilesOf(base) :
       /\ mb.files[i] # File(SubdirCur, base, info, mb.files[i].size)
       /\ mb' = [mb EXCEPT
                   !.files[i] = File(SubdirCur, base, info, mb.files[i].size),
                   !.mtime = [subdir \in Subdirs |->
                                IF subdir \in {mb.files[i].dir, SubdirCur}
                                  THEN @[subdir] + 1 ELSE @[subdir]],
                   !.changes = @ + 1]
  /\ UNCHANGED <<fmt, exps, calls, eq, out, pf>>

\* another program removes the file of a message
Remove(base) ==
  /\ MayChange
  /\ \E i \in FilesOf(base) :
       mb' = [mb EXCEPT
                !.files = SubSeq(@, 1, i - 1) \o SubSeq(@, i + 1, Len(@)),
                !.mtime[mb.files[i].dir] = @ + 1,
                !.changes = @ + 1]
  /\ UNCHANGED <<fmt, exps, calls, eq, out, pf>>

\* the signal handler sets SigInt
Interrupt ==
  /\ MayChange
  /\ ~mb.SigInt
  /\ mb' = [mb EXCEPT !.SigInt = TRUE, !.changes = @ + 1]
  /\ UNCHANGED <<fmt, exps, calls, eq, out, pf>>

\* the order of a directory that is not read
NoOrder(n) == [i \in 1..n |-> i]

\* what a maildir_parse_dir call on subdir may meet: whether the directory
\* opens, the order readdir returns its files in, when a signal arrives, and
\* how the sort leaves equal inodes
ScanInputs(subdir, mda) ==
  {in \in [open_ok : BOOLEAN, order : Orders(Len(FilesIn(mb, subdir))),
           signal : Signals(Len(FilesIn(mb, subdir))),
           rev : TieOrders(mda, FilesIn(mb, subdir))] :
     /\ (~in.open_ok \/ mb.SigInt) => in.signal = NoSignal
     /\ (~in.open_ok \/ mb.SigInt) => in.order = NoOrder(Len(FilesIn(mb, subdir)))
     /\ (~in.open_ok \/ in.signal # NoSignal) => ~in.rev}

\* the maildir_parse_dir call of a step: mda is the array it is given
Scan(subdir, mda, in) ==
  maildir_parse_dir(mda, subdir, Listing(mb, subdir, in.order), in.open_ok,
                    mb.SigInt, in.signal, mb.flag_safe, in.rev)

\* maildir_mbox_open(m): the scan of maildir_read_dir(m, "new")
MboxOpenScanNew ==
  /\ mb.pc = "closed"
  /\ \E in \in ScanInputs(SubdirNew, <<>>) :
       mb' = ReadDirScan([mb EXCEPT !.last = Begin(mb, "maildir_mbox_open")],
                         SubdirNew, Scan(SubdirNew, <<>>, in))
  /\ UNCHANGED <<fmt, exps, calls, eq, out, pf>>

\* maildir_mbox_open(m): the scan of maildir_read_dir(m, "cur")
MboxOpenScanCur ==
  /\ mb.pc = "open_scan_cur"
  /\ \E in \in ScanInputs(SubdirCur, <<>>) :
       mb' = ReadDirScan(mb, SubdirCur, Scan(SubdirCur, <<>>, in))
  /\ UNCHANGED <<fmt, exps, calls, eq, out, pf>>

\* maildir_mbox_open(m): the files that a maildir_read_dir call found are read
\* and their Emails are added to the mailbox
MboxOpenParse ==
  /\ mb.pc \in {"open_parse_new", "open_parse_cur"}
  /\ mb' = ReadDirParse(mb, IF mb.pc = "open_parse_new" THEN SubdirNew
                                                          ELSE SubdirCur)
  /\ UNCHANGED <<fmt, exps, calls, eq, out, pf>>

\* maildir_check(m): the call and its stat of new/
MaildirCheckStatNew ==
  /\ mb.pc = "idle"
  /\ \E c_check_new \in BOOLEAN, stat_ok \in BOOLEAN :
       (c_check_new \/ stat_ok) /\ mb' = CheckStatNew(mb, c_check_new, stat_ok)
  /\ UNCHANGED <<fmt, exps, calls, eq, out, pf>>

\* maildir_check(m): the stat of cur/
MaildirCheckStatCur ==
  /\ mb.pc = "check_stat_cur"
  /\ \E stat_ok \in BOOLEAN : mb' = CheckStatCur(mb, stat_ok)
  /\ UNCHANGED <<fmt, exps, calls, eq, out, pf>>

\* maildir_check(m): the scan of new/
MaildirCheckScanNew ==
  /\ mb.pc = "check_scan_new"
  /\ \E in \in ScanInputs(SubdirNew, <<>>) :
       mb' = CheckScanNew(mb, Scan(SubdirNew, <<>>, in))
  /\ UNCHANGED <<fmt, exps, calls, eq, out, pf>>

\* maildir_check(m): the scan of cur/
MaildirCheckScanCur ==
  /\ mb.pc = "check_scan_cur"
  /\ \E in \in ScanInputs(SubdirCur, mb.last.mda) :
       mb' = CheckScanCur(mb, Scan(SubdirCur, mb.last.mda, in))
  /\ UNCHANGED <<fmt, exps, calls, eq, out, pf>>

\* maildir_check(m): the new files are read, their Emails are added to the
\* mailbox and the call returns
MaildirCheckParse ==
  /\ mb.pc = "check_parse"
  /\ mb' = CheckParse(mb)
  /\ UNCHANGED <<fmt, exps, calls, eq, out, pf>>

\* maildir_update_mtime(m): the call and its stat of cur/
MaildirUpdateMtimeCur ==
  /\ mb.pc = "idle"
  /\ \E stat_ok \in BOOLEAN :
       mb' = [UpdateMtimeCur([mb EXCEPT !.last = Begin(mb, "maildir_update_mtime")],
                             stat_ok) EXCEPT !.pc = "mtime_new"]
  /\ UNCHANGED <<fmt, exps, calls, eq, out, pf>>

\* maildir_update_mtime(m): the stat of new/; the call returns nothing
MaildirUpdateMtimeNew ==
  /\ mb.pc = "mtime_new"
  /\ \E stat_ok \in BOOLEAN :
       mb' = Return(UpdateMtimeNew(mb, stat_ok), "idle", mb.last.status)
  /\ UNCHANGED <<fmt, exps, calls, eq, out, pf>>

\* maildir_mbox_sync(m) begins with `enum MxStatus check = maildir_check(m);
\* if (check == MX_STATUS_ERROR) return check;`.  maildir_check does not
\* depend on its caller and its steps are those above; when it has returned
\* another status and the caller was maildir_mbox_sync, the loop over the
\* Emails follows
MboxSyncMessages ==
  /\ mb.pc = "idle"
  /\ mb.last.fn = "maildir_check"
  /\ mb.last.done
  /\ mb.last.status # MX_STATUS_ERROR
  /\ \E synced \in BOOLEAN : mb' = SyncMessages(mb, synced)
  /\ UNCHANGED <<fmt, exps, calls, eq, out, pf>>

\* maildir_mbox_sync(m): maildir_update_mtime(m), its stat of cur/
MboxSyncMtimeCur ==
  /\ mb.pc = "sync_mtime_cur"
  /\ \E stat_ok \in BOOLEAN :
       mb' = [UpdateMtimeCur(mb, stat_ok) EXCEPT !.pc = "sync_mtime_new"]
  /\ UNCHANGED <<fmt, exps, calls, eq, out, pf>>

\* maildir_mbox_sync(m): the stat of new/ of maildir_update_mtime(m), and the
\* return of the status of the check
MboxSyncMtimeNew ==
  /\ mb.pc = "sync_mtime_new"
  /\ \E stat_ok \in BOOLEAN : mb' = SyncFinish(mb, stat_ok)
  /\ UNCHANGED <<fmt, exps, calls, eq, out, pf>>

\* maildir_mbox_check_stats(m, flags): the call and its count of new/
MboxCheckStatsNew ==
  /\ mb.pc = "idle"
  /\ \E check_stats \in BOOLEAN, check_cur \in BOOLEAN, open_ok \in BOOLEAN,
        order \in Orders(Len(FilesIn(mb, SubdirNew))) :
       mb' = StatsNew(mb, check_stats, check_cur, open_ok, order)
  /\ UNCHANGED <<fmt, exps, calls, eq, out, pf>>

\* maildir_mbox_check_stats(m, flags): the count of cur/
MboxCheckStatsCur ==
  /\ mb.pc = "stats_cur"
  /\ \E open_ok \in BOOLEAN, order \in Orders(Len(FilesIn(mb, SubdirCur))) :
       mb' = StatsCur(mb, open_ok, order)
  /\ UNCHANGED <<fmt, exps, calls, eq, out, pf>>

NextMaildir ==
  \/ \E base \in Bases, size \in Sizes : Deliver(base, size)
  \/ \E base \in Bases, info \in Infos : Rename(base, info)
  \/ \E base \in Bases : Remove(base)
  \/ Interrupt
  \/ MboxOpenScanNew
  \/ MboxOpenScanCur
  \/ MboxOpenParse
  \/ MaildirCheckStatNew
  \/ MaildirCheckStatCur
  \/ MaildirCheckScanNew
  \/ MaildirCheckScanCur
  \/ MaildirCheckParse
  \/ MaildirUpdateMtimeCur
  \/ MaildirUpdateMtimeNew
  \/ MboxSyncMessages
  \/ MboxSyncMtimeCur
  \/ MboxSyncMtimeNew
  \/ MboxCheckStatsNew
  \/ MboxCheckStatsCur

SpecMaildir == InitMaildir /\ [][NextMaildir]_vars

(***************************************************************************)
(* Properties.                                                             *)
(***************************************************************************)
\* the string of a call starts with a conditional whose test is a known code:
\* "%<a?..." or "%?a?..."
IsCond(s) ==
  /\ Len(s) >= 4
  /\ s[1] = "%" /\ s[2] \in {"<", "?"}
  /\ s[3] \in FormatDef /\ s[4] = "?"

\* a call that ran the parser on a string that starts with a conditional
CondCall(c) == c.done /\ ~c.defs_null /\ ~c.str.null /\ IsCond(c.str.chars)

\* the first byte of the true branch of the conditional that starts the string
StartTrue == Len(<<"%", "<", "a", "?">>) + 1

\* where the forward scan ends the true branch of the conditional of call c
EndTrue(c) ==
  skip_until_if_true_end(c.str.chars, StartTrue, EndTerminator(c.str.chars[2]))

\* where the forward scan ends the false branch, given the end of the true one
EndFalse(c, end_true) ==
  skip_until_if_false_end(c.str.chars, end_true + 1, EndTerminator(c.str.chars[2]))

RECURSIVE Conditions(_)
\* the Condition nodes reachable from a node pointer
Conditions(list) ==
  IF list = <<>> THEN {}
  ELSE Conditions(Tail(list)) \cup
       (IF Head(list).type = ENT_CONDITION
          THEN {Head(list)} \cup Conditions(Head(list).children[ENC_CONDITION]
                                             \o Head(list).children[ENC_TRUE]
                                             \o Head(list).children[ENC_FALSE])
        ELSE IF Head(list).type = ENT_PADDING
          THEN Conditions(node_get_child(Head(list), ENP_LEFT)
                          \o node_get_child(Head(list), ENP_RIGHT))
          ELSE {})

\* no node of a sibling list is an Empty node
NoEmpty(list) == \A i \in 1..Len(list) : list[i].type # ENT_EMPTY

\* C1: when parsing records an error position, expando_parse returns NULL, the
\* message is in the caller's err buffer, and the Expando, its string and the
\* root tree are freed: the call leaves no Expando, no string and no node of the
\* root tree allocated.
C1_FailFast ==
  \A slot \in Slots :
    (calls[slot].done /\ calls[slot].error.position # NULL) =>
      /\ calls[slot].ret_null
      /\ exps[slot].null
      /\ calls[slot].buf = calls[slot].error.message
      /\ calls[slot].buf # NoMessage
      /\ calls[slot].live.exps = 0
      /\ calls[slot].live.strs = 0
      /\ calls[slot].live.nodes = calls[slot].lost

\* a parse that failed after it had built part of the root tree
C1_Witness ==
  \E slot \in Slots :
    /\ calls[slot].done
    /\ calls[slot].error.position # NULL
    /\ calls[slot].root # <<>>
    /\ exps[slot].null

\* C3: expando_equal is TRUE exactly when both arguments are NULL or both are
\* non-NULL with byte-identical format strings, whatever their node trees are.
C3_EqualByString ==
  eq.done =>
    eq.result = (\/ eq.a.null /\ eq.b.null
                 \/ /\ ~eq.a.null
                    /\ ~eq.b.null
                    /\ eq.a.string.chars = eq.b.string.chars)

\* two Expandos with the same node tree and different strings compared unequal
C3_Witness ==
  /\ eq.done
  /\ ~eq.a.null
  /\ ~eq.b.null
  /\ eq.a.string # eq.b.string
  /\ eq.a.node = eq.b.node
  /\ ~eq.result

EmptySlots(c, cond, end_true, end_terminator) ==
  /\ cond.type = ENT_CONDITION
  /\ (end_true = StartTrue => cond.children[ENC_TRUE] = <<node_new>>)
  /\ (end_true > StartTrue =>
        cond.children[ENC_TRUE] # <<>> /\ NoEmpty(cond.children[ENC_TRUE]))
  /\ (At(c.str.chars, end_true) = end_terminator => cond.children[ENC_FALSE] = <<>>)
  /\ (At(c.str.chars, end_true) = "&" /\ EndFalse(c, end_true) = end_true + 1 =>
        cond.children[ENC_FALSE] = <<node_new>>)
  /\ (At(c.str.chars, end_true) = "&" /\ EndFalse(c, end_true) > end_true + 1 =>
        cond.children[ENC_FALSE] # <<>> /\ NoEmpty(cond.children[ENC_FALSE]))

\* C5: in a parsed conditional an empty true branch is an Empty node in the TRUE
\* slot; without '&' the FALSE slot is NULL; with '&' and nothing after it the
\* FALSE slot is an Empty node; a non-empty branch holds the nodes parsed from it.
C5_EmptyBranches ==
  \A slot \in Slots :
    (CondCall(calls[slot]) /\ ~calls[slot].ret_null) =>
      EmptySlots(calls[slot], calls[slot].root[1], EndTrue(calls[slot]),
                 EndTerminator(calls[slot].str.chars[2]))

\* a conditional with an empty true branch and no '&' was parsed
C5_Witness ==
  \E slot \in Slots :
    /\ CondCall(calls[slot])
    /\ ~calls[slot].ret_null
    /\ EndTrue(calls[slot]) = StartTrue
    /\ At(calls[slot].str.chars, StartTrue) # "&"
    /\ calls[slot].root[1].children[ENC_TRUE] = <<node_new>>

\* C6 as claimed: every Condition node of a parsed tree has a node in each of
\* its three slots (an Empty node in FALSE when the source has no false branch).
C6_ThreeSlotsPopulated ==
  \A slot \in Slots :
    \A cond \in Conditions(exps[slot].node) :
      /\ cond.children[ENC_CONDITION] # <<>>
      /\ cond.children[ENC_TRUE] # <<>>
      /\ cond.children[ENC_FALSE] # <<>>

\* the FALSE slot of the conditional that starts the string is NULL exactly
\* when the true branch ends at the terminator, that is, without '&'
FalseSlotIffAmp(c, cond, end_true, end_terminator) ==
  (cond.children[ENC_FALSE] = <<>>) = (At(c.str.chars, end_true) = end_terminator)

\* C6 amended: every Condition node of a parsed tree has its three slots, with
\* a node in CONDITION and in TRUE; the FALSE slot is NULL when the source has
\* no '&' and holds a node (Empty when nothing follows the '&') when it has one.
C6_SlotsAmended ==
  \A slot \in Slots :
    /\ \A cond \in Conditions(exps[slot].node) :
         /\ Len(cond.children) = 3
         /\ cond.children[ENC_CONDITION] # <<>>
         /\ cond.children[ENC_TRUE] # <<>>
    /\ (CondCall(calls[slot]) /\ ~calls[slot].ret_null) =>
         FalseSlotIffAmp(calls[slot], calls[slot].root[1], EndTrue(calls[slot]),
                         EndTerminator(calls[slot].str.chars[2]))

\* a parsed Condition node whose FALSE slot is NULL
C6_Witness ==
  \E slot \in Slots :
    /\ ~exps[slot].null
    /\ \E cond \in Conditions(exps[slot].node) : cond.children[ENC_FALSE] = <<>>

\* C7 for one call: the outcome when the scan of the true branch stopped at
\* end_true, the end of the input
MissingEnd(c, end_true, end_terminator) ==
  At(c.str.chars, end_true) = NUL =>
    /\ c.ret_null
    /\ c.root = <<>>
    /\ c.error.position = end_true
    /\ c.error.position = Len(c.str.chars) + 1
    /\ c.error.message = MsgMissingAmpOr(end_terminator)
    /\ c.buf = (IF end_terminator = ">" THEN MsgMissingAmpOrGreater
                                        ELSE MsgMissingAmpOrQuestion)

\* C7: a true branch that runs to the end of the input fails the parse with no
\* node, the error position at the byte after the branch text (where the scan
\* stopped) and a message that names '&' and the terminator.
C7_MissingTerminator ==
  \A slot \in Slots :
    CondCall(calls[slot]) =>
      MissingEnd(calls[slot], EndTrue(calls[slot]),
                 EndTerminator(calls[slot].str.chars[2]))

\* "%<c?xxx" was parsed and failed at the byte after "xxx"
C7_Witness ==
  \E slot \in Slots :
    /\ calls[slot].done
    /\ calls[slot].str = Str(S_MissingEnd)
    /\ ~calls[slot].defs_null
    /\ calls[slot].ret_null
    /\ calls[slot].error.position = 8

\* the tree of "%<a?%<b?x&y>&z>": a ? (b ? x : y) : z
NestedNewTree ==
  <<node_condition_new(
      <<node_condbool_new(S_NestedNew, 3, 4)>>,
      <<node_condition_new(<<node_condbool_new(S_NestedNew, 7, 8)>>,
                           <<node_text_new(S_NestedNew, 9, 10)>>,
                           <<node_text_new(S_NestedNew, 11, 12)>>)>>,
      <<node_text_new(S_NestedNew, 14, 15)>>)>>

\* the number of "%<" in the bytes [from, to) of s, as the scans see them
Opens(s, from, to) ==
  Cardinality({i \in (from + 1)..(to - 1) : s[i] = "<" /\ s[i - 1] = "%"})

\* the number of un-escaped '>' in the bytes [from, to) of s
Closes(s, from, to) ==
  Cardinality({i \in from..(to - 1) : s[i] = ">" /\ ~(i > from /\ s[i - 1] = "%")})

\* C8 for one call with a modern conditional: the true branch ends at depth 0,
\* and no earlier '&' or un-escaped '>' was at depth 0
EndsAtDepthZero(s, end_true) ==
  At(s, end_true) # NUL =>
    /\ Opens(s, StartTrue, end_true) = Closes(s, StartTrue, end_true)
    /\ \A i \in StartTrue..(end_true - 1) :
         (s[i] = "&" \/ (s[i] = ">" /\ ~(i > StartTrue /\ s[i - 1] = "%"))) =>
           Opens(s, StartTrue, i) # Closes(s, StartTrue, i)

\* C8: in a modern conditional the true branch ends only at an '&' or '>' seen
\* at nesting depth 0, so "%<a?%<b?x&y>&z>" parses to a Condition whose TRUE
\* slot is the Condition (b ? x : y) and whose FALSE slot is the text z.
C8_NestedModern ==
  \A slot \in Slots :
    /\ (CondCall(calls[slot]) /\ calls[slot].str.chars[2] = "<") =>
         EndsAtDepthZero(calls[slot].str.chars, EndTrue(calls[slot]))
    /\ (calls[slot].done /\ ~calls[slot].defs_null
        /\ calls[slot].str = Str(S_NestedNew)) =>
         /\ ~calls[slot].ret_null
         /\ exps[slot].node = NestedNewTree

\* "%<a?%<b?x&y>&z>" was parsed
C8_Witness ==
  \E slot \in Slots :
    /\ calls[slot].done
    /\ calls[slot].str = Str(S_NestedNew)
    /\ ~exps[slot].null
    /\ exps[slot].node[1].children[ENC_TRUE][1].type = ENT_CONDITION

\* C9: a legacy conditional "%?...?...?" holds no Condition node in its
\* branches: a "%<...>" inside a legacy branch is not parsed as a conditional.
C9_LegacyDoesNotNest ==
  \A slot \in Slots :
    (/\ CondCall(calls[slot])
     /\ calls[slot].str.chars[2] = "?"
     /\ ~calls[slot].ret_null) =>
      /\ Conditions(calls[slot].root[1].children[ENC_TRUE]) = {}
      /\ Conditions(calls[slot].root[1].children[ENC_FALSE]) = {}

\* C10 for one call: an '&' that ends the true branch is not preceded by '%'
AmpNotEscaped(s, end_true) ==
  (At(s, end_true) = "&" /\ end_true > StartTrue) => s[end_true - 1] # "%"

\* C10: the scan of the true branch ends at an '&' only when that '&' is not
\* immediately preceded by '%' (and the depth is 0).
C10_AmpUnescaped ==
  \A slot \in Slots :
    CondCall(calls[slot]) =>
      AmpNotEscaped(calls[slot].str.chars, EndTrue(calls[slot]))

\* the string a is the beginning of the string b
IsPrefix(a, b) == Len(a) <= Len(b) /\ SubSeq(b, 1, Len(a)) = a

Renders(chars, code, value, max_cols, text) ==
  (/\ out.done
   /\ ~out.rdata_null
   /\ ~exps[out.slot].null
   /\ exps[out.slot].string = Str(chars)
   /\ exps[out.slot].node # <<>>
   /\ out.max_cols = max_cols
   /\ out.data[code].str = value) =>
     out.buf = out.pre \o text

\* the format specs of the worked example: "%-5c" and "%5c" of "ab", and a
\* centred and a zero-padded field
FormatScenario ==
  /\ Renders(S_Left, "c", <<"a", "b">>, Unlimited, <<"a", "b", " ", " ", " ">>)
  /\ Renders(S_Right, "c", <<"a", "b">>, Unlimited, <<" ", " ", " ", "a", "b">>)
  /\ Renders(S_Centre, "c", <<"a", "b">>, Unlimited, <<" ", "a", "b", " ", " ">>)
  /\ Renders(S_Zero, "c", <<"a", "b">>, Unlimited, <<"0", "0", "0", "a", "b">>)
  /\ Renders(S_Precision, "t", <<"a", "b", "c", "d">>, Unlimited, <<"a", "b">>)
  /\ Renders(S_Right, "c", <<"a", "b">>, 3, <<" ", " ", " ">>)

\* the soft padding of the worked example: "A%>.B" in 5, 3 and 2 columns
PaddingScenario ==
  /\ \A data \in RenderData :
       /\ Renders(S_PadSoft, "c", data["c"].str, 5, <<"A", ".", ".", ".", "B">>)
       /\ Renders(S_PadSoft, "c", data["c"].str, 3, <<"A", ".", "B">>)
       /\ Renders(S_PadSoft, "c", data["c"].str, 2, <<"A", "B">>)
       /\ Renders(S_PadHard, "c", data["c"].str, 2, <<"A", "C">>)
       /\ Renders(S_PadEol, "c", data["c"].str, 3, <<"A", ".", ".">>)

(***************************************************************************)
(* Properties of the single node_parse calls of an expando_parse call.     *)
(***************************************************************************)
\* the node_parse calls that the expando_parse call c made
CallsOf(c) == {c.trace[i] : i \in 1..Len(c.trace)}

\* a call that ran the parser
ParserCall(c) == c.done /\ ~c.defs_null /\ ~c.str.null

\* the element that starts at str is "%%"
AtPercentPercent(s, str) == At(s, str) = "%" /\ At(s, str + 1) = "%"

\* C11: a node_parse call that starts at "%%", at top level or in a branch,
\* returns one Text node whose text is the single character '%' and sets
\* *parsed_until to the byte after the second '%'; it records no error.
C11_PercentPercent ==
  \A slot \in Slots :
    ParserCall(calls[slot]) =>
      \A call \in CallsOf(calls[slot]) :
        AtPercentPercent(calls[slot].str.chars, call.str) =>
          /\ Len(call.node) = 1
          /\ call.node[1].type = ENT_TEXT
          /\ call.node[1].text = <<"%">>
          /\ call.until = call.str + 2
          /\ call.position = NULL

\* "%<a?%%&y>" was parsed: the "%%" of its true branch gave the Text node "%"
C11_Witness ==
  \E slot \in Slots :
    /\ calls[slot].done
    /\ calls[slot].str = Str(S_PercentBranch)
    /\ ~exps[slot].null
    /\ \E call \in CallsOf(calls[slot]) :
         /\ call.depth = 1
         /\ call.str = StartTrue
         /\ call.until = StartTrue + 2
    /\ exps[slot].node[1].children[ENC_TRUE] = <<node_text_new(S_PercentBranch, 6, 7)>>

\* what the last render returned: the buffer and the number of columns
Returned == [buf |-> out.buf, cols |-> out.cols]

\* the buffer and the number of columns of a render result
Result(r) == [buf |-> r.buf, cols |-> r.cols]

\* the last render had an Expando with a tree and a callback table
RenderCall == out.done /\ ~out.rdata_null /\ ~exps[out.slot].null /\ exps[out.slot].node # <<>>

\* C12: expando_render with max_cols = -1 gives the output and the return value
\* of expando_render with max_cols = 8192, and every other max_cols reaches the
\* tree renderer as it was given.
C12_MinusOneIsUnlimited ==
  RenderCall =>
    /\ (out.max_cols = -1 =>
          Returned = Result(expando_render(exps[out.slot], out.rdata_null,
                                           out.data, Unlimited, out.pre)))
    /\ (out.max_cols # -1 =>
          Returned = Result(node_render(exps[out.slot].node, out.data, out.pre,
                                        out.max_cols, 0)))

\* a render with max_cols = -1 that wrote more columns than any small budget
C12_Witness ==
  /\ RenderCall
  /\ out.max_cols = -1
  /\ out.cols > MaxCols
  /\ out.buf # out.pre

RECURSIVE CodesOf(_)
\* the codes in a node list: those whose callbacks a render of it can invoke
CodesOf(list) ==
  IF list = <<>> THEN {}
  ELSE CodesOf(Tail(list)) \cup
       (IF Head(list).type \in {ENT_EXPANDO, ENT_CONDBOOL} THEN {Head(list).text[1]}
        ELSE IF Head(list).type = ENT_CONDDATE THEN {"["}
        ELSE IF Head(list).type = ENT_CONDITION
          THEN CodesOf(Head(list).children[ENC_CONDITION]
                       \o Head(list).children[ENC_TRUE]
                       \o Head(list).children[ENC_FALSE])
        ELSE IF Head(list).type = ENT_PADDING
          THEN CodesOf(node_get_child(Head(list), ENP_LEFT)
                       \o node_get_child(Head(list), ENP_RIGHT))
        ELSE {})

\* the last render was of a tree that is one Condition with a CondBool test
ConditionRender ==
  /\ RenderCall
  /\ Len(exps[out.slot].node) = 1
  /\ exps[out.slot].node[1].type = ENT_CONDITION
  /\ exps[out.slot].node[1].children[ENC_CONDITION][1].type = ENT_CONDBOOL

\* C14 for the Condition cond whose test has the code `code`: the render gives
\* what the render of the chosen branch alone gives, and invokes no callback
\* but that of the test and those of the chosen branch
OnlyChosen(cond, code, chosen, budget) ==
  /\ Returned = Result(node_render(chosen, out.data, out.pre, budget, 0))
  /\ out.used \subseteq {code} \cup CodesOf(chosen)

Banana == <<"b", "a", "n", "a", "n", "a">>

\* C14: the render of a Condition is the render of its TRUE branch when the
\* test is true and of its FALSE branch otherwise, never both, and no callback
\* of the other branch is invoked; "%<[1m?a&banana>" renders "a" for a date of
\* now and "banana" for a date one year old.
C14_ConditionRender ==
  /\ ConditionRender =>
       OnlyChosen(exps[out.slot].node[1],
                  exps[out.slot].node[1].children[ENC_CONDITION][1].text[1],
                  IF out.data[exps[out.slot].node[1].children[ENC_CONDITION][1].text[1]].num # 0
                    THEN exps[out.slot].node[1].children[ENC_TRUE]
                    ELSE exps[out.slot].node[1].children[ENC_FALSE],
                  IF out.max_cols = -1 THEN Unlimited ELSE out.max_cols)
  /\ (RenderCall /\ exps[out.slot].string = Str(S_Date)
      /\ out.max_cols \in {-1, Unlimited}) =>
       /\ out.data["["].num = DateNow => out.buf = out.pre \o <<"a">>
       /\ out.data["["].num = DateNow - PeriodDays("y") => out.buf = out.pre \o Banana

\* "%<c?%t&%f>" was rendered with a true test: the callbacks of c and t were
\* invoked, that of f was not
C14_Witness ==
  /\ RenderCall
  /\ exps[out.slot].string = Str(S_ThenElse)
  /\ out.max_cols = -1
  /\ out.used = {"c", "t"}
  /\ out.buf = out.pre \o <<"v">>

\* "%<[1m?a&banana>" was rendered with a date one year old
DateRendered ==
  /\ RenderCall
  /\ exps[out.slot].string = Str(S_Date)
  /\ out.data["["].num = DateNow - PeriodDays("y")
  /\ out.buf = Banana

\* C15 for the call at index i of the trace of a parse of s: a call for a test
\* is made by the conditional's call, at the byte after that call's start, at
\* the conditional's own '<' or '?'
TestAtOpening(s, trace, i) ==
  trace[i].condition_start = CON_START =>
    /\ i > 1
    /\ trace[i - 1].depth = trace[i].depth - 1
    /\ trace[i].str = trace[i - 1].str + 1
    /\ At(s, trace[i].str) \in {"<", "?"}
    /\ ((At(s, trace[i].str + 1) \in {"<", "?"} /\ trace[i].node # <<>>) =>
          trace[i].node[1].type = ENT_CONDITION)

\* C15 for one call: outside a test, a Condition node comes from a '%' only,
\* and a call that starts at another byte returns the text from that byte on
PercentExplicit(s, call) ==
  call.condition_start = CON_NO_CONDITION =>
    /\ (call.node # <<>> /\ call.node[1].type = ENT_CONDITION) => At(s, call.str) = "%"
    /\ At(s, call.str) # "%" =>
         /\ call.node # <<>>
         /\ call.node[1].type = ENT_TEXT
         /\ call.node[1].start = call.str
         /\ call.until > call.str

\* the tree of "%<<a?b>?c>": (a ? b) ? c
NestedTestTree ==
  <<node_condition_new(
      <<node_condition_new(<<node_condbool_new(S_NestedTest, 4, 5)>>,
                           <<node_text_new(S_NestedTest, 6, 7)>>, <<>>)>>,
      <<node_text_new(S_NestedTest, 9, 10)>>,
      <<>>)>>

\* C15: the test of a conditional is parsed from the conditional's own '<' or
\* '?' with the '%' implicit, so that a second '<' or '?' makes the test a
\* nested conditional ("%<<a?b>?c>" has a Condition in its CONDITION slot);
\* outside a test a '<' or '?' without '%' is text.
C15_ImplicitPercent ==
  \A slot \in Slots :
    ParserCall(calls[slot]) =>
      /\ \A i \in 1..Len(calls[slot].trace) :
           /\ TestAtOpening(calls[slot].str.chars, calls[slot].trace, i)
           /\ PercentExplicit(calls[slot].str.chars, calls[slot].trace[i])
      /\ calls[slot].str = Str(S_NestedTest) =>
           ~calls[slot].ret_null /\ calls[slot].root = NestedTestTree

\* "%<<a?b>?c>" was parsed, with a node_parse call for the inner test
C15_Witness ==
  \E slot \in Slots :
    /\ calls[slot].done
    /\ calls[slot].str = Str(S_NestedTest)
    /\ ~exps[slot].null
    /\ exps[slot].node[1].children[ENC_CONDITION][1].type = ENT_CONDITION
    /\ \E call \in CallsOf(calls[slot]) :
         call.depth = 2 /\ call.condition_start = CON_START /\ call.str = 3

\* the calls that the call at index i of a trace made itself: those one level
\* deeper, up to the next call that is not deeper than it
Kids(trace, i) ==
  {k \in (i + 1)..Len(trace) :
     /\ trace[k].depth = trace[i].depth + 1
     /\ \A m \in (i + 1)..k : trace[m].depth > trace[i].depth}

\* C16 for one loop: calls is the set of the indexes of its successful calls,
\* first the byte it starts at, list the list it built.  The list holds the
\* nodes the calls returned, in the order of the calls, and every call starts
\* where the call before it ended.
InTextOrder(trace, calls_, first, list) ==
  /\ Len(list) = Cardinality(calls_)
  /\ \A k \in calls_ :
       /\ list[Cardinality({m \in calls_ : m <= k})] = trace[k].node[1]
       /\ trace[k].until > trace[k].str
       /\ ({m \in calls_ : m < k} = {}) => trace[k].str = first
       /\ \A m \in calls_ :
            (m < k /\ {n \in calls_ : m < n /\ n < k} = {}) =>
              trace[k].str = trace[m].until

\* the list of a branch slot: an Empty node stands for no node
BranchList(slot) == IF slot = <<node_new>> THEN <<>> ELSE slot

\* C16 for the call at index i, which returned a Condition whose test was
\* parsed by the call at index test and whose true branch ends at end_true
BranchesInTextOrder(trace, i, test, end_true) ==
  /\ InTextOrder(trace,
                 {k \in Kids(trace, i) : k # test /\ trace[k].end = end_true},
                 trace[test].until + 1,
                 BranchList(trace[i].node[1].children[ENC_TRUE]))
  /\ InTextOrder(trace,
                 {k \in Kids(trace, i) : k # test /\ trace[k].end # end_true},
                 end_true + 1,
                 BranchList(trace[i].node[1].children[ENC_FALSE]))

\* the calls of a trace that returned a Condition
ConditionCalls(trace) ==
  {i \in 1..Len(trace) : trace[i].node # <<>> /\ trace[i].node[1].type = ENT_CONDITION}

\* C16: the sibling list node_tree_parse builds (before the re-pad pass) and
\* the list of every branch of every parsed conditional hold the nodes of the
\* successful node_parse calls of their loop in the order of the calls, and
\* each call starts at the byte where the call before it stopped: the lists are
\* in the textual order of the source.
C16_TextOrder ==
  \A slot \in Slots :
    (ParserCall(calls[slot]) /\ calls[slot].str.chars # <<>>) =>
      /\ InTextOrder(calls[slot].trace,
                     {k \in 1..Len(calls[slot].trace) :
                        calls[slot].trace[k].depth = 0
                        /\ calls[slot].trace[k].node # <<>>},
                     1, calls[slot].list)
      /\ \A i \in ConditionCalls(calls[slot].trace) :
           BranchesInTextOrder(
             calls[slot].trace, i, i + 1,
             skip_until_if_true_end(
               calls[slot].str.chars, calls[slot].trace[i + 1].until + 1,
               EndTerminator(At(calls[slot].str.chars, calls[slot].trace[i + 1].str))))

\* "x%a%<a?x&y>z" and "%<c?x%t&%fy>" were parsed: four siblings at top level,
\* two nodes in each branch
C16_Witness ==
  /\ calls[1].done
  /\ calls[1].str = Str(S_Branches)
  /\ ~exps[1].null
  /\ Len(exps[1].node[1].children[ENC_TRUE]) = 2
  /\ Len(exps[1].node[1].children[ENC_FALSE]) = 2
  /\ exps[1].node[1].children[ENC_TRUE][2].text = <<"t">>
  /\ exps[1].node[1].children[ENC_FALSE][1].text = <<"f">>

\* C17: when a parse fails, every node the node_parse calls allocated has been
\* freed by the time NULL is returned: no node of the test subtree, of the true
\* branch or of the false branch is left allocated with nothing pointing to it.
C17_AllFreed ==
  \A slot \in Slots :
    (ParserCall(calls[slot]) /\ calls[slot].ret_null) =>
      /\ calls[slot].lost = 0
      /\ calls[slot].live.nodes = 0

\* "%<a?%a%z>" failed on its second true-branch element: the Expando node of
\* "%a" was already in node_true, which the failure path does not free
C17_TrueBranchLeak ==
  /\ calls[1].done
  /\ calls[1].str = Str(S_LeakTrue)
  /\ calls[1].ret_null
  /\ calls[1].lost = 1

\* the node_parse calls node_tree_parse made itself, in order
TopCalls(c) == SelectSeq(c.trace, LAMBDA call : call.depth = 0)

\* the top-level calls of c cover the whole string: the first starts at its
\* first byte, each starts where the one before it stopped, and the last
\* stopped at the terminating NUL
CoversString(c, top) ==
  /\ top # <<>>
  /\ top[1].str = 1
  /\ \A k \in 1..(Len(top) - 1) : top[k + 1].str = top[k].until
  /\ top[Len(top)].until = Len(c.str.chars) + 1

\* C18: failure and the error record agree.  A node_parse call returns NULL
\* exactly when err->position is set on its return, so err->position is unset
\* when every call succeeded; expando_parse returns an Expando exactly when no
\* node_parse call failed, and then the top-level calls cover the format
\* string from its first byte to its NUL: a tree of a prefix of the string is
\* never returned as a success.
C18_FailureIffError ==
  \A slot \in Slots :
    ParserCall(calls[slot]) =>
      /\ \A call \in CallsOf(calls[slot]) :
           (call.node = <<>>) <=> (call.position # NULL)
      /\ calls[slot].ret_null <=> (calls[slot].error.position # NULL)
      /\ calls[slot].ret_null <=> (\E call \in CallsOf(calls[slot]) : call.node = <<>>)
      /\ calls[slot].ret_null = exps[slot].null
      /\ (~calls[slot].ret_null /\ calls[slot].str.chars # <<>>) =>
           CoversString(calls[slot], TopCalls(calls[slot]))

\* the parse of "%<c?xxx" failed in the conditional after the test had been
\* parsed, and the parse of "%?a??" by the second caller succeeded
C18_Witness ==
  /\ calls[1].done
  /\ calls[1].str = Str(S_MissingEnd)
  /\ calls[1].ret_null
  /\ calls[1].error.position = Len(S_MissingEnd) + 1
  /\ Len(calls[1].trace) = 2
  /\ calls[2].done
  /\ calls[2].str # calls[1].str
  /\ ~calls[2].ret_null
  /\ Len(TopCalls(calls[2])) = 1
  /\ TopCalls(calls[2])[1].until = Len(calls[2].str.chars) + 1

\* C19: parsing terminates because every loop makes progress.  Each successful
\* node_parse call sets *parsed_until beyond the byte it started at and not
\* beyond the terminating NUL, so node_tree_parse and each branch loop of
\* node_parse make fewer calls than the string has bytes left, and every
\* expando_parse call returns.
C19_Progress ==
  \A slot \in Slots :
    ParserCall(calls[slot]) =>
      /\ \A call \in CallsOf(calls[slot]) :
           (call.node # <<>>) =>
             /\ call.until > call.str
             /\ call.until <= Len(calls[slot].str.chars) + 1
      /\ Len(TopCalls(calls[slot])) <= Len(calls[slot].str.chars)
      /\ \A i \in 1..Len(calls[slot].trace) :
           Cardinality(Kids(calls[slot].trace, i)) <=
             Len(calls[slot].str.chars) - calls[slot].trace[i].str

\* "%<c?x%t&%fy>" was parsed: two calls in the loop of each branch, each one
\* starting beyond the one before it
C19_Witness ==
  /\ calls[1].done
  /\ calls[1].str = Str(S_Branches)
  /\ ~calls[1].ret_null
  /\ Cardinality(Kids(calls[1].trace, 1)) = 5
  /\ \A k \in 3..Len(calls[1].trace) :
       calls[1].trace[k].str > calls[1].trace[k - 1].str

\* C20: the scan for the end of a branch and the element parser agree on
\* escapes.  In "%<a?x%%>" the "%%" is one element, a literal '%', so the '>'
\* after it is not escaped: the scan of the true branch stops at it, and the
\* string parses to a Condition whose TRUE slot is [Text "x", Text "%"].
C20_EscapedPercentEndsBranch ==
  \A slot \in Slots :
    (ParserCall(calls[slot]) /\ calls[slot].str = Str(S_EscapedEnd)) =>
      /\ EndTrue(calls[slot]) = Len(S_EscapedEnd)
      /\ ~calls[slot].ret_null
      /\ Len(calls[slot].root[1].children[ENC_TRUE]) = 2
      /\ calls[slot].root[1].children[ENC_TRUE][1].text = <<"x">>
      /\ calls[slot].root[1].children[ENC_TRUE][2].text = <<"%">>

\* the parse of "%<a?x%%>" failed: the scan of the true branch took the '>'
\* for an escaped one and ran to the NUL
C20_EscapedEndFails ==
  /\ calls[1].done
  /\ ~calls[1].defs_null
  /\ calls[1].str = Str(S_EscapedEnd)
  /\ calls[1].ret_null
  /\ calls[1].error = ParseError(Len(S_EscapedEnd) + 1, MsgMissingAmpOrGreater)

(***************************************************************************)
(* Properties of the forward scans.                                        *)
(***************************************************************************)
\* the scan of the true branch of the conditional of call c, with the least
\* value of its nesting counter
TrueScan(c) ==
  ScanTrue(c.str.chars, StartTrue, EndTerminator(c.str.chars[2]), 0, NUL, 0)

\* the scan of the false branch of the conditional of call c
FalseScan(c, end_true) ==
  ScanFalse(c.str.chars, end_true + 1, EndTerminator(c.str.chars[2]), 0, NUL, 0)

\* no "%<" in s from start on: every byte from start on is at depth 0
NoOpening(s, start) ==
  \A i \in (start + 1)..Len(s) : ~(s[i - 1] = "%" /\ s[i] = "<")

\* the first byte from start on that ends a true branch at depth 0: an '&', an
\* un-escaped terminator, or the NUL
FirstTrueEnd(s, start, end_terminator) ==
  CHOOSE i \in start..(Len(s) + 1) :
    /\ \/ At(s, i) \in {NUL, "&"}
       \/ At(s, i) = end_terminator /\ (i = start \/ s[i - 1] # "%")
    /\ \A k \in start..(i - 1) :
         /\ At(s, k) # "&"
         /\ ~(At(s, k) = end_terminator /\ (k = start \/ s[k - 1] # "%"))

\* C21 for the scan of the true branch of call c, whose result is scan
TrueScanAtDepth(c, scan) ==
  /\ scan.low >= 0
  /\ NoOpening(c.str.chars, StartTrue) =>
       scan.pos = FirstTrueEnd(c.str.chars, StartTrue, EndTerminator(c.str.chars[2]))
  /\ At(c.str.chars, scan.pos) = "&" => FalseScan(c, scan.pos).low >= 0

\* C21: in the scans of the true and of the false branch, with the modern and
\* with the legacy terminator, the nesting counter is never negative, so a
\* terminator at the top level of the branch ends the scan: in a branch
\* without "%<" the scan stops at the first '&' or un-escaped terminator.
C21_CounterNeverNegative ==
  \A slot \in Slots :
    CondCall(calls[slot]) => TrueScanAtDepth(calls[slot], TrueScan(calls[slot]))

\* the parse of the legacy conditional "%?a?>?" failed: the '>' of its true
\* branch took the counter to -1 and the scan ran past the closing '?'
C21_LegacyCounterNegative ==
  /\ calls[1].done
  /\ calls[1].str = Str(<<"%", "?", "a", "?", ">", "?">>)
  /\ TrueScan(calls[1]).low = -1
  /\ TrueScan(calls[1]).pos = Len(calls[1].str.chars) + 1
  /\ calls[1].ret_null

\* a node_parse call made by a branch loop that returned a node
BranchCall(call) ==
  call.depth > 0 /\ call.condition_start = CON_NO_CONDITION /\ call.node # <<>>

\* C22: branch containment.  Every element parsed by a branch loop of
\* node_parse ends at or before the end of the branch found by the forward
\* scan, so a loop that finishes leaves the cursor exactly at that end
\* (start_true == end_true, start_false == end_false): no element consumes the
\* terminator of its branch or a byte after it, and no byte is parsed twice.
C22_BranchContained ==
  \A slot \in Slots :
    ParserCall(calls[slot]) =>
      \A call \in CallsOf(calls[slot]) :
        BranchCall(call) => call.until <= call.end

\* "%<a?%?a?x&y?>" was parsed: the legacy conditional in the true branch, which
\* ends at the '&', took the '&' and "y?" as its own false branch, and the
\* outer conditional parsed "y?" again as its false branch
C22_Overrun ==
  /\ calls[1].done
  /\ calls[1].str = Str(S_Overrun)
  /\ ~calls[1].ret_null
  /\ \E call \in CallsOf(calls[1]) : BranchCall(call) /\ call.until > call.end + 1
  /\ exps[1].node[1].children[ENC_TRUE][1].children[ENC_FALSE][1].text = <<"y">>
  /\ exps[1].node[1].children[ENC_FALSE][1].text = <<"y", "?">>

\* every node_parse call of c but the first, the conditional itself, returned a
\* node: the test and the elements of the true branch were parsed
OnlyConditionFailed(c) ==
  /\ c.trace # <<>>
  /\ \A i \in 2..Len(c.trace) : c.trace[i].node # <<>>

\* C23 for call c, whose true branch the scan ended at end_true and whose false
\* branch it ended at end_false
FalseMissingEnd(c, end_true, end_false, end_terminator) ==
  (/\ At(c.str.chars, end_true) = "&"
   /\ At(c.str.chars, end_false) # end_terminator
   /\ OnlyConditionFailed(c)) =>
    /\ c.ret_null
    /\ c.error = ParseError(end_true + 1, MsgMissing(end_terminator))
    /\ c.buf = MsgMissing(end_terminator)
    /\ c.lost = 0
    /\ c.live.nodes = 0

\* C23: when the scan of the false branch of a conditional runs to the end of
\* the input without finding the closing terminator at depth 0, the parse
\* fails, the test and the true branch are freed, and the error position is
\* the first byte of the false branch, the byte after the '&', not the byte
\* where the scan stopped; the message names the terminator.
C23_FalseMissingTerminator ==
  \A slot \in Slots :
    CondCall(calls[slot]) =>
      FalseMissingEnd(calls[slot], EndTrue(calls[slot]),
                      EndFalse(calls[slot], EndTrue(calls[slot])),
                      EndTerminator(calls[slot].str.chars[2]))

\* a conditional "%<a?a&..." with a false branch of at least two bytes and no
\* '>' failed at the byte after the '&'
C23_Witness ==
  \E slot \in Slots :
    /\ CondCall(calls[slot])
    /\ calls[slot].str.chars[2] = "<"
    /\ At(calls[slot].str.chars, EndTrue(calls[slot])) = "&"
    /\ OnlyConditionFailed(calls[slot])
    /\ Len(calls[slot].trace) = 3
    /\ calls[slot].ret_null
    /\ calls[slot].error.position = EndTrue(calls[slot]) + 1
    /\ Len(calls[slot].str.chars) > EndTrue(calls[slot]) + 1
    /\ calls[slot].error.message = MsgMissingGreater

\* C24: for a non-empty format string node_tree_parse runs the re-pad pass
\* exactly once, on the sibling list as the last top-level node_parse call left
\* it, whether that call returned a node or failed; the pass never runs
\* between two calls.  For an empty string (which expando_new stores like a
\* NULL one) no node_parse call and no re-pad pass run, and the root is a
\* single Empty node with no error.
C24_RepadOnce ==
  \A slot \in Slots :
    ParserCall(calls[slot]) =>
      IF calls[slot].str.chars = <<>>
        THEN /\ calls[slot].repads = 0
             /\ calls[slot].calls = 0
             /\ calls[slot].trace = <<>>
             /\ calls[slot].root = <<node_new>>
             /\ calls[slot].error = NoError
             /\ ~calls[slot].ret_null
        ELSE /\ calls[slot].repads = 1
             /\ calls[slot].calls >= 1
             /\ calls[slot].calls = Len(TopCalls(calls[slot]))
             /\ Len(calls[slot].list) =
                  Cardinality({k \in 1..Len(TopCalls(calls[slot])) :
                                 TopCalls(calls[slot])[k].node # <<>>})
             /\ calls[slot].root = node_padding_repad(calls[slot].list)

\* "x%z" was parsed: the first call returned the Text node "x", the second
\* failed on the unknown expando, and the re-pad pass ran once on the list of
\* one node; the second caller's parse ran it once after its only call
C24_Witness ==
  /\ calls[1].done
  /\ calls[1].str = Str(S_Unknown)
  /\ calls[1].ret_null
  /\ calls[1].calls = 2
  /\ calls[1].repads = 1
  /\ Len(calls[1].list) = 1
  /\ calls[2].done
  /\ ~calls[2].ret_null
  /\ calls[2].repads = 1

\* a node_parse call that parsed an expando code: it returned an Expando, a
\* CondBool or a CondDate node
ExpandoCall(call) ==
  /\ call.node # <<>>
  /\ call.node[1].type \in {ENT_EXPANDO, ENT_CONDBOOL, ENT_CONDDATE}

\* C25 as stated: an expando code is parsed as a CondBool node exactly when it
\* is the test of a conditional, and as an Expando node in every other position.
C25_CondBoolIffTest ==
  \A slot \in Slots :
    ParserCall(calls[slot]) =>
      \A call \in CallsOf(calls[slot]) :
        ExpandoCall(call) =>
          /\ (call.node[1].type = ENT_CONDBOOL) <=> (call.condition_start = CON_START)
          /\ (call.condition_start # CON_START) => call.node[1].type = ENT_EXPANDO

\* C25, amended: an expando code is parsed with the conditional flag exactly
\* when it is the test of a conditional, and then gives a CondBool node, or, for
\* a code whose definition has its own parser (the date code '['), the node of
\* that parser, a CondDate; in every other position (top level, true branch,
\* false branch) it gives an Expando node.
C25_TestParsedWithFlag ==
  \A slot \in Slots :
    ParserCall(calls[slot]) =>
      \A call \in CallsOf(calls[slot]) :
        ExpandoCall(call) =>
          call.node[1].type =
            IF call.condition_start # CON_START THEN ENT_EXPANDO
            ELSE IF At(calls[slot].str.chars, call.str + 1) \in DateDef
              THEN ENT_CONDDATE
            ELSE ENT_CONDBOOL

\* "%<[1m?%c&%<c?%t>>" was parsed: the test of the outer conditional is a
\* CondDate, its true branch the Expando c, the test of the inner conditional
\* the CondBool c and its true branch the Expando t
C25_Witness ==
  /\ calls[1].done
  /\ calls[1].str = Str(S_DateNested)
  /\ ~exps[1].null
  /\ exps[1].node[1].children[ENC_CONDITION][1].type = ENT_CONDDATE
  /\ exps[1].node[1].children[ENC_TRUE][1].type = ENT_EXPANDO
  /\ exps[1].node[1].children[ENC_TRUE][1].text = <<"c">>
  /\ exps[1].node[1].children[ENC_FALSE][1].children[ENC_CONDITION][1].type = ENT_CONDBOOL
  /\ exps[1].node[1].children[ENC_FALSE][1].children[ENC_CONDITION][1].text = <<"c">>
  /\ exps[1].node[1].children[ENC_FALSE][1].children[ENC_TRUE][1].type = ENT_EXPANDO

(***************************************************************************)
(* Properties of maildir_parse_flags.                                      *)
(***************************************************************************)
\* the flag letters of the file name of the call: what follows "2," after the
\* last delimiter, nothing when the name has no such field
FlagsOf(path) ==
  IF strrchr(path, Delimiter) # NULL
     /\ mutt_str_startswith(path, strrchr(path, Delimiter) + 1, <<"2", ",">>)
    THEN {path[i] : i \in (strrchr(path, Delimiter) + 3)..Len(path)}
    ELSE {}

\* C27: with $flag_safe set, maildir_parse_flags does not mark as trash or
\* deleted a message whose file name has the flag letter 'F', in whatever
\* order the flag letters come.
C27_FlaggedNotTrashed ==
  (/\ pf.done
   /\ pf.flag_safe
   /\ "F" \in FlagsOf(pf.path)
   /\ ~pf.before.trash /\ ~pf.before.deleted) =>
    /\ ~pf.e.trash
    /\ ~pf.e.deleted

\* maildir_parse_flags(e, "m:2,TF") with $flag_safe set marked the new Email
\* flagged, trash and deleted: at the 'T' the Email was not flagged yet
C27_TrashedBeforeFlagged ==
  /\ pf.done
  /\ pf.flag_safe
  /\ pf.path = <<"m", ":", "2", ",", "T", "F">>
  /\ pf.before = maildir_email_new
  /\ pf.e.flagged
  /\ pf.e.trash
  /\ pf.e.deleted

\* maildir_parse_flags(e, "m:2,FT") with $flag_safe set left the Email
\* flagged and neither trash nor deleted
C27_FlaggedFirst ==
  /\ pf.done
  /\ pf.flag_safe
  /\ pf.path = <<"m", ":", "2", ",", "F", "T">>
  /\ pf.e.flagged
  /\ ~pf.e.trash
  /\ ~pf.e.deleted

(***************************************************************************)
(* Properties of maildir_parse_dir and maildir_check.                      *)
(***************************************************************************)
\* the maildir_parse_dir calls of the call that is running, or of the last
\* call that returned
Scans == {mb.last.scans[i] : i \in 1..Len(mb.last.scans)}

\* C28: maildir_parse_dir releases the pooled buffer it acquired on every
\* return path, on success (0), when the directory cannot be opened (-1) and
\* when interrupted by SigInt (-2, with SigInt reset to false): after any call
\* the acquisitions and the releases of the buffer pool are balanced.
C28_BufferReleased ==
  \A scan \in Scans :
    /\ scan.rc \in {0, -1, -2}
    /\ scan.gets = 1
    /\ scan.releases = scan.gets
    /\ scan.rc = -2 => ~scan.SigInt

\* a maildir_check call whose first scan was interrupted: the scan returned -2
\* with SigInt reset and the pooled buffer still acquired; the scan after it
\* ran to its end and released its own
C28_InterruptedLeak ==
  /\ mb.last.fn = "maildir_check"
  /\ mb.last.done
  /\ Len(mb.last.scans) = 2
  /\ mb.last.scans[1].rc = -2
  /\ ~mb.last.scans[1].SigInt
  /\ mb.last.scans[1].gets = 1
  /\ mb.last.scans[1].releases = 0
  /\ mb.last.scans[2].rc = 0
  /\ mb.last.scans[2].releases = 1

\* the last call on the mailbox was a maildir_check call, and it has returned
CheckReturned == mb.last.fn = "maildir_check" /\ mb.last.done

\* the messages the mailbox knew at the last maildir_check call: the Emails
\* of its array below msg_count and below the first NULL slot
Known ==
  {i \in 1..mb.last.before_count :
     \A k \in 1..i : Slot(mb.last.before, k) # <<>>}

\* the canonical file name of the known message i
KnownName(i) == maildir_canon_filename(mb.last.before[i][1].path)

\* a message the mailbox knew before the last maildir_check call is missing:
\* its subdirectory was rescanned, and no rescanned subdirectory held a file
\* of the message when it was scanned
Missing ==
  \E i \in Known :
    /\ InChanged(mb.last.before[i][1].path, mb.last.changed)
    /\ KnownName(i) \notin mb.last.listed

\* the last maildir_check call added a message to the mailbox
Added == mb.msg_count > mb.last.before_count

\* the last maildir_check call changed a flag of a message the mailbox knew
FlagChanged ==
  \E i \in Known :
    \/ mb.emails[i][1].flagged # mb.last.before[i][1].flagged
    \/ mb.emails[i][1].replied # mb.last.before[i][1].replied
    \/ mb.emails[i][1].read # mb.last.before[i][1].read
    \/ mb.emails[i][1].old # mb.last.before[i][1].old
    \/ mb.emails[i][1].deleted # mb.last.before[i][1].deleted

\* the subdirectories whose mtime, as the stat calls of the last maildir_check
\* call gave it, is newer than the one recorded at the call
Newer ==
  {subdir \in Subdirs :
     \/ subdir = SubdirNew /\ mb.last.st[SubdirNew] > mb.last.mdata.mtime
     \/ subdir = SubdirCur /\ mb.last.st[SubdirCur] > mb.last.mdata.mtime_cur}

\* C26: maildir_check reports the strongest change it saw.  It returns
\* MX_STATUS_OK without scanning when $check_new is off or neither
\* subdirectory is newer than the recorded mtime (and MX_STATUS_ERROR when a
\* stat fails); after a scan it returns MX_STATUS_REOPENED if a message it
\* knew is missing from a rescanned subdirectory, otherwise MX_STATUS_NEW_MAIL
\* if a message was added to the mailbox, otherwise MX_STATUS_FLAGS if a flag
\* was changed, otherwise MX_STATUS_OK.
C26_StrongestChange ==
  CheckReturned =>
    IF ~mb.last.was_new \/ ~mb.last.stat_ok \/ Newer = {}
      THEN /\ mb.last.status = IF mb.last.was_new /\ ~mb.last.stat_ok
                                 THEN MX_STATUS_ERROR ELSE MX_STATUS_OK
           /\ mb.last.scans = <<>>
           /\ mb.emails = mb.last.before
           /\ mb.msg_count = mb.last.before_count
      ELSE /\ mb.last.changed = Newer
           /\ {scan.subdir : scan \in Scans} = Newer
           /\ mb.last.status =
                IF Missing THEN MX_STATUS_REOPENED
                ELSE IF Added THEN MX_STATUS_NEW_MAIL
                ELSE IF FlagChanged THEN MX_STATUS_FLAGS
                ELSE MX_STATUS_OK

\* the precedence holds of every check whose scans all ran to the end of
\* their directory, on a mailbox that has one Email for a message
C26_CompleteScans ==
  (/\ \A scan \in Scans : scan.rc = 0
   /\ \A i, k \in Known : KnownName(i) = KnownName(k) => i = k) =>
    C26_StrongestChange

\* a check whose scan of cur/ was interrupted before it read the file of a
\* known message: the message is marked deleted and the check returns
\* MX_STATUS_REOPENED, though the file is in cur/
C26_InterruptedScan ==
  /\ CheckReturned
  /\ mb.last.status = MX_STATUS_REOPENED
  /\ \E scan \in Scans : scan.rc = -2
  /\ ~Missing
  /\ \E i \in Known : mb.emails[i][1].deleted /\ ~mb.last.before[i][1].deleted

====
